---- MODULE Spec2Model ----
(***************************************************************************)
(* A model of the bento indexer (ThinEdgeLabs/bento): the relational store *)
(* with its keys, the paging traversal (Indexer::index_chain and           *)
(* process_headers), the cut scheduler (Indexer::backfill and              *)
(* get_all_bounds), the live stream consumer (process_header and           *)
(* save_block) and the transfer derivation.                                *)
(***************************************************************************)
EXTENDS Integers, Sequences, FiniteSets, TLC

(***************************************************************************)
(* Bounds of the model.                                                    *)
(***************************************************************************)
\* Height of the cut on chain 0 (chain 1 is one block shorter).
MaxHeight == 2
\* Page size of the header-branch call ("limit", 50 in the program).
PageLimit == 2
\* Events carried by every transaction result.
EventsPerTx == 1
\* How many times a process may be killed between two store writes.
MaxCrashes == 1
\* How many times index_chain is run twice in a row on bounds of the caller's choice.
MaxPairs == 2
\* How many backfill sweeps are started.
MaxSweeps == 2
\* How many header events the stream delivers.
MaxStreamEvents == 2
BatchSize == 1
\* Genesis height of a chain that was added to the network later (852054 in the
\* program's network); the chains there from the start have their genesis at 0.
GenesisAbove == 1

VARIABLES
    blocks,         \* table blocks: rows [hash, chain_id, height, parent, payload]
    transactions,   \* table transactions: rows [block, request_key, chain_id, height]
    events,         \* table events: rows [block, request_key, idx, chain_id, height, module,
                    \* name, qual_name, params]
    transfers,      \* table transfers: rows [block, request_key, idx, chain_id, height,
                    \* amount, from_account, to_account]
    jobs,           \* the traversal jobs (index_chain futures), by job id
    sweep,          \* the cut scheduler (backfill)
    consumer,       \* the live stream consumer and its header handlers
    deriver,        \* the transfer derivation (transfers::backfill_chain)
    hist,           \* what the properties need to remember of the run, and the chains
                    \* whose genesis is above height 0
    scan,           \* the gap engine (gaps::find_gaps)
    call,           \* a function of the library called on its own: arguments and result
    balances,       \* table balances: rows [account, chain_id, qual_name, module, amount,
                    \* height]
    balancer        \* the balance derivation (balance::calculate_balances)

vars ==
    <<blocks, transactions, events, transfers, jobs, sweep, consumer, deriver, hist,
      scan, call, balances, balancer>>

(***************************************************************************)
(* JSON values and decimals.  A text is a sequence of characters; a JSON   *)
(* number is held by the text serde_json prints for it.                    *)
(***************************************************************************)
\* The longest text of a JSON string.
MaxTextLen == 3

Alphabet == {"0", "1", ".", "x"}

Texts == UNION {[1..n -> Alphabet] : n \in 0..MaxTextLen}

None == [none |-> TRUE]

Panic == [panic |-> TRUE]

JsonNull == [kind |-> "null"]
JsonArray == [kind |-> "array"]
JsonString(text) == [kind |-> "string", str |-> text]
JsonNumber(text) == [kind |-> "number", text |-> text]
\* An object: a function from its keys to their values.
JsonObject(fields) == [kind |-> "object", fields |-> fields]

is_number(value) == value.kind = "number"
is_object(value) == value.kind = "object"

IsDigit(c) == c \in {"0", "1"}

RECURSIVE DigitsValue(_)
DigitsValue(ds) ==
    IF ds = <<>> THEN 0
    ELSE 10 * DigitsValue(SubSeq(ds, 1, Len(ds) - 1)) + (IF ds[Len(ds)] = "1" THEN 1 ELSE 0)

\* A decimal: int * 10^(-scale), with no trailing zero kept in the fraction, so
\* that equal decimals are equal records.
RECURSIVE Decimal(_, _)
Decimal(int, scale) ==
    IF scale > 0 /\ int % 10 = 0 THEN Decimal(int \div 10, scale - 1)
    ELSE [int |-> int, scale |-> scale]

\* BigDecimal::from_str on a text without sign or exponent: the digits before
\* and after the first '.' make the integer, the digits after it the scale;
\* no digit at all or any other character is an error.
BigDecimal_from_str(text) ==
    LET dots   == {i \in DOMAIN text : text[i] = "."}
        loc    == IF dots = {} THEN Len(text) + 1
                  ELSE CHOOSE i \in dots : \A k \in dots : i <= k
        lead   == SubSeq(text, 1, loc - 1)
        trail  == SubSeq(text, loc + 1, Len(text))
        digits == lead \o trail
    IN  IF digits = <<>> \/ \E i \in DOMAIN digits : ~IsDigit(digits[i])
        THEN [err |-> "ParseBigDecimalError"]
        ELSE [err |-> "none", value |-> Decimal(DigitsValue(digits), Len(trail))]

RECURSIVE Pow10(_)
Pow10(n) == IF n = 0 THEN 1 ELSE 10 * Pow10(n - 1)

\* BigDecimal + BigDecimal: exact, at the larger of the two scales.
DecimalAdd(a, b) ==
    LET scale == IF a.scale >= b.scale THEN a.scale ELSE b.scale
    IN  Decimal(a.int * Pow10(scale - a.scale) + b.int * Pow10(scale - b.scale), scale)

\* BigDecimal * BigDecimal::from(-1)
DecimalNeg(a) == Decimal(0 - a.int, a.scale)

unwrap_or_zero(parsed) == IF parsed.err = "none" THEN parsed.value ELSE Decimal(0, 0)

\* Value::as_i64: the integer of a number that is printed without a fraction.
as_i64(value) ==
    IF value.kind = "number" /\ \A i \in DOMAIN value.text : IsDigit(value.text[i])
    THEN [some |-> TRUE, value |-> DigitsValue(value.text)]
    ELSE None

\* Value::as_str
as_str(value) == IF value.kind = "string" THEN [some |-> TRUE, value |-> value.str] ELSE None

\* transfers.rs make_transfer: the amount of params[2].
transfer_amount(value) ==
    IF is_number(value)
    THEN LET parsed == BigDecimal_from_str(value.text)
         IN  IF parsed.err = "none" THEN parsed.value ELSE Panic
    ELSE IF is_object(value)
    THEN IF "decimal" \in DOMAIN value.fields
         THEN LET number == as_str(value.fields["decimal"])
              IN  IF number = None THEN Panic
                  ELSE unwrap_or_zero(BigDecimal_from_str(number.value))
         ELSE IF "int" \notin DOMAIN value.fields THEN Panic
         ELSE LET number == as_i64(value.fields["int"])
              IN  IF number = None THEN Panic ELSE Decimal(number.value, 0)
    ELSE Decimal(0, 0)

\* balance.rs parse_transfer_event: the amount of params[2].
balance_amount(value) ==
    IF is_number(value)
    THEN LET parsed == BigDecimal_from_str(value.text)
         IN  IF parsed.err = "none" THEN parsed.value ELSE Panic
    ELSE IF is_object(value)
    THEN IF "decimal" \notin DOMAIN value.fields THEN Panic
         ELSE LET number == as_str(value.fields["decimal"])
              IN  IF number = None THEN Panic
                  ELSE unwrap_or_zero(BigDecimal_from_str(number.value))
    ELSE Decimal(0, 0)

(***************************************************************************)
(* The node: a static snapshot.  A hash is <<chain, height, variant>>;     *)
(* variant 0 is the block of the canonical branch, variant 1 a block of a  *)
(* losing fork at the same height.                                         *)
(***************************************************************************)
Chains == {0, 1}

CutHeight(c) == IF c = 0 THEN MaxHeight ELSE MaxHeight - 1

\* GET /cut: the hash the node advertises per chain.
CutHash(c) == <<c, CutHeight(c), 0>>

CanonicalHashes == {x \in Chains \X (0..MaxHeight) \X {0} : x[2] <= CutHeight(x[1])}

\* The losing fork: a second block at the tip height of chain 0.
ForkHashes == {<<0, MaxHeight, 1>>}

AllHashes == CanonicalHashes \cup ForkHashes

NoParent == <<>>

\* The height of the chain's genesis block: hist.late holds the chains that were
\* added to the network later.
GenesisHeight(c) == IF c \in hist.late THEN GenesisAbove ELSE 0

\* The header the node serves for a hash.
HeaderOf(x) ==
    [hash |-> x, chain_id |-> x[1], height |-> x[2],
     parent |-> IF x[2] = GenesisHeight(x[1]) THEN NoParent ELSE <<x[1], x[2] - 1, 0>>,
     payload_hash |-> <<"payload", x>>]

\* The blocks on the branch that ends in x, x included.
Ancestors(x) == {x} \cup {<<x[1], k, 0>> : k \in GenesisHeight(x[1])..(x[2] - 1)}

\* The position of x when S is listed in descending height (siblings by fork).
Rank(S, x) ==
    1 + Cardinality({y \in S : y[2] > x[2] \/ (y[2] = x[2] /\ y[3] > x[3])})

SortDesc(S) == [i \in 1..Cardinality(S) |-> CHOOSE x \in S : Rank(S, x) = i]

Min(a, b) == IF a <= b THEN a ELSE b

\* POST /chain/{chain}/header/branch?limit=...: the ancestors of upper that are
\* not ancestors of lower, in descending height, one page of them.
get_block_headers_branches(chain, bounds) ==
    LET up   == UNION {Ancestors(bounds.upper[i]) : i \in DOMAIN bounds.upper}
        low  == UNION {Ancestors(bounds.lower[i]) : i \in DOMAIN bounds.lower}
        all  == SortDesc({x \in up \ low : x[1] = chain})
        page == SubSeq(all, 1, Min(Len(all), PageLimit))
    IN  [i \in DOMAIN page |-> HeaderOf(page[i])]

\* The request keys of the signed transactions in a block's payload: every block
\* above height 0 carries one transaction, and the fork block carries the same
\* transaction as the canonical block of its height.
PayloadTransactions(x) == IF x[2] = 0 THEN {} ELSE {<<"rk", x[1], x[2]>>}

\* POST /chain/{chain}/payload/batch
get_block_payload_batch(chain, payload_hashes) ==
    {[payload_hash |-> ph, transactions |-> PayloadTransactions(ph[2])] :
        ph \in {h \in payload_hashes : h[2][1] = chain}}

\* The tx-result of a request key as recorded in block x.
TxResultIn(rk, x) ==
    [request_key |-> rk,
     block_hash |-> x,
     block_height |-> x[2],
     events |-> [i \in 1..EventsPerTx |->
                    [module |-> "coin", name |-> "TRANSFER",
                     params |-> <<JsonString(<<"k", "0">>), JsonString(<<"k", "1">>),
                                  JsonNumber(<<"1", ".", "1">>)>>]]]

\* The tx-result a node at rest holds for a request key: the transaction is
\* recorded in the canonical block of its height.
TxResult(rk) == TxResultIn(rk, <<rk[2], rk[3], 0>>)

\* The blocks a node may name in the tx-result of a request key while its
\* branches are still in flux: any block whose payload carries the transaction.
ResultBlocks(rk) == {x \in AllHashes : rk \in PayloadTransactions(x)}

\* POST /chain/{chain}/pact/api/v1/poll
poll(request_keys, chain) == {TxResult(rk) : rk \in {k \in request_keys : k[2] = chain}}

\* fetch_transactions_results: the results of all chunks, appended.
fetch_transactions_results(request_keys, chain) == poll(request_keys, chain)

(***************************************************************************)
(* The store.  Every statement runs in its own implicit transaction.       *)
(***************************************************************************)
Hashes(bs) == {b.hash : b \in bs}

\* Primary key of blocks: (hash).
BlockPkConflict(bs, b) == \E x \in bs : x.hash = b.hash

\* The unique key on blocks (chain_id, height) that save_block's
\* UniqueViolation branch answers to.
BlockHeightConflictNone(bs, b) == FALSE
BlockHeightConflict(bs, b) ==
    \E x \in bs : x.chain_id = b.chain_id /\ x.height = b.height

BlockConflict(bs, b) == BlockPkConflict(bs, b) \/ BlockHeightConflict(bs, b)

\* A store without the foreign keys.
ForeignKeyNone(bs, rows) == TRUE

\* The foreign keys transactions.block, events.block, transfers.block -> blocks.hash.
ForeignKeyOk(bs, rows) == \A r \in rows : r.block \in Hashes(bs)

\* BlocksRepository::insert
BlocksInsert(bs, b) ==
    IF BlockConflict(bs, b)
    THEN [err |-> "UniqueViolation", rows |-> bs]
    ELSE [err |-> "none", rows |-> bs \cup {b}]

\* BlocksRepository::insert_batch: INSERT ... ON CONFLICT DO NOTHING RETURNING *.
\* The rows of one page lie on one branch, so they do not conflict with each other.
BlocksInsertBatchUpsert(bs, new) ==
    [err |-> "none", rows |-> {x \in bs : ~\E b \in new : BlockConflict({x}, b)} \cup new,
     inserted |-> Cardinality(new)]
BlocksInsertBatch(bs, new) ==
    LET fresh == {b \in new : ~BlockConflict(bs, b)}
    IN  [err |-> "none", rows |-> bs \cup fresh, inserted |-> Cardinality(fresh)]

\* BlocksRepository::find_by_height: the first row of that height and chain.
BlocksFindByHeight(bs, height, chain_id) ==
    {x \in bs : x.height = height /\ x.chain_id = chain_id}

\* BlocksRepository::delete_one, refused while a row still references the block.
BlocksDeleteOne(bs, txs, evs, trs, height, chain_id) ==
    LET gone == {x \in bs : x.height = height /\ x.chain_id = chain_id}
        left == bs \ gone
    IN  IF ForeignKeyOk(left, txs) /\ ForeignKeyOk(left, evs) /\ ForeignKeyOk(left, trs)
        THEN [err |-> "none", rows |-> left]
        ELSE [err |-> "ForeignKeyViolation", rows |-> bs]

\* Primary keys: transactions (block, request_key), events (block, idx,
\* request_key), transfers (block, chain_id, idx, module_hash, request_key).
TransactionKey(r) == <<r.block, r.request_key>>
EventKey(r) == <<r.block, r.idx, r.request_key>>
TransferKey(r) == <<r.block, r.chain_id, r.idx, r.request_key>>

\* INSERT ... ON CONFLICT DO NOTHING of rows that reference blocks: the rows whose
\* key is taken are skipped, the others must reference a block.
InsertIfAbsent(bs, table, fresh) ==
    IF ForeignKeyOk(bs, fresh)
    THEN [err |-> "none", rows |-> table \cup fresh, inserted |-> Cardinality(fresh)]
    ELSE [err |-> "ForeignKeyViolation", rows |-> table, inserted |-> 0]

\* TransactionsRepository::insert_batch
TransactionsInsertBatch(bs, table, new) ==
    InsertIfAbsent(bs, table,
        {r \in new : ~\E x \in table : TransactionKey(x) = TransactionKey(r)})

\* EventsRepository::insert_batch
EventsInsertBatch(bs, table, new) ==
    InsertIfAbsent(bs, table, {r \in new : ~\E x \in table : EventKey(x) = EventKey(r)})

\* TransfersRepository::insert_batch
TransfersInsertBatch(bs, table, new) ==
    InsertIfAbsent(bs, table,
        {r \in new : ~\E x \in table : TransferKey(x) = TransferKey(r)})

\* delete_all_by_block of transactions and of events.
DeleteAllByBlock(table, hash) == {r \in table : r.block # hash}

(***************************************************************************)
(* Row builders (indexer.rs).                                              *)
(***************************************************************************)
\* The signed transaction decoded from a payload entry; its command's meta
\* carries the chain the node accepted it on.
SignedTransaction(rk) == [hash |-> rk, meta_chain_id |-> rk[2]]

get_signed_txs_from_payload(payload) ==
    {SignedTransaction(rk) : rk \in payload.transactions}

get_signed_txs_from_payloads(payloads) ==
    UNION {get_signed_txs_from_payload(p) : p \in payloads}

build_block(header, payload) ==
    [hash |-> header.hash, chain_id |-> header.chain_id, height |-> header.height,
     parent |-> header.parent, payload |-> payload.payload_hash]

build_transaction_chain0(signed_tx, pact_result, chain) ==
    [block |-> pact_result.block_hash, request_key |-> pact_result.request_key,
     chain_id |-> 0, height |-> pact_result.block_height]
build_transaction(signed_tx, pact_result, chain) ==
    [block |-> pact_result.block_hash, request_key |-> pact_result.request_key,
     chain_id |-> chain, height |-> pact_result.block_height]

\* get_transactions_from_payload that builds a row for every signed transaction.
get_transactions_from_payload_all(signed_txs, tx_results, chain) ==
    {build_transaction(s, TxResult(s.hash), chain) : s \in signed_txs}

get_transactions_from_payload(signed_txs, tx_results, chain) ==
    {build_transaction(CHOOSE s \in signed_txs : s.hash = r.request_key, r, chain) :
        r \in tx_results}

build_events(signed_tx, pact_result) ==
    {[block |-> pact_result.block_hash, request_key |-> pact_result.request_key,
      idx |-> i - 1, chain_id |-> signed_tx.meta_chain_id,
      height |-> pact_result.block_height, module |-> pact_result.events[i].module,
      name |-> pact_result.events[i].name,
      qual_name |-> <<pact_result.events[i].module, pact_result.events[i].name>>,
      params |-> pact_result.events[i].params] :
        i \in DOMAIN pact_result.events}

get_events_from_txs(tx_results, signed_txs) ==
    UNION {build_events(CHOOSE s \in signed_txs : s.hash = r.request_key, r) :
        r \in tx_results}

(***************************************************************************)
(* Chain traversal: Indexer::index_chain and Indexer::process_headers.     *)
(* A job is one index_chain future.  Its store statements are separate     *)
(* steps: nothing wraps them in a transaction.                             *)
(***************************************************************************)
JobIds == 1..(2 * Cardinality(Chains))

NoBounds == [lower |-> <<>>, upper |-> <<>>]

\* omit: what the node leaves out of its answers for the page at hand (None:
\* nothing), the payload hashes without a payload in the batch answer and the
\* request keys without an entry in the poll answers.
IdleJob ==
    [chain |-> 0, bounds |-> NoBounds, pc |-> "idle", headers |-> <<>>,
     written |-> {}, inserted |-> 0, omit |-> None]

StartedJob(chain, bounds) ==
    [chain |-> chain, bounds |-> bounds, pc |-> "fetch", headers |-> <<>>,
     written |-> {}, inserted |-> 0, omit |-> None]

\* One turn of index_chain's loop on the items of a header-branch response:
\* whether the loop returns, and the bounds of the next call.
index_chain_no_convergence(bounds, items) ==
    IF items = <<>>
    THEN [return |-> TRUE, bounds |-> bounds]
    ELSE [return |-> FALSE,
          bounds |-> [bounds EXCEPT !.upper = <<items[Len(items)].hash>>]]
index_chain(bounds, items) ==
    IF items = <<>>
    THEN [return |-> TRUE, bounds |-> bounds]
    ELSE LET next_bounds == [bounds EXCEPT !.upper = <<items[Len(items)].hash>>]
         IN  [return |-> next_bounds = bounds, bounds |-> next_bounds]

\* The order of process_headers' statements.
process_headers_txs_first(pc) ==
    CASE pc = "fetch" -> "insert_txs"
      [] pc = "insert_txs" -> "save_blocks"
      [] pc = "save_blocks" -> "insert_events"
      [] pc = "insert_events" -> "fetch"
process_headers(pc) ==
    CASE pc = "fetch" -> "save_blocks"
      [] pc = "save_blocks" -> "insert_txs"
      [] pc = "insert_txs" -> "insert_events"
      [] pc = "insert_events" -> "fetch"

\* Indexer::save_blocks: one block per payload hash of the page (the headers are
\* collected into a map keyed by payload hash, a later header replacing an
\* earlier one), built with the payload of that hash.
save_blocks(bs, headers, payloads) ==
    LET payload_hashes == {headers[i].payload_hash : i \in DOMAIN headers}
        header_of(ph) ==
            headers[CHOOSE i \in DOMAIN headers :
                /\ headers[i].payload_hash = ph
                /\ \A k \in DOMAIN headers : headers[k].payload_hash = ph => k <= i]
    IN  IF \E ph \in payload_hashes : ~\E p \in payloads : p.payload_hash = ph
        THEN [err |-> "panic", rows |-> bs, inserted |-> 0]
        ELSE BlocksInsertBatch(bs,
                {build_block(header_of(ph), CHOOSE p \in payloads : p.payload_hash = ph) :
                    ph \in payload_hashes})

\* What process_headers computes from the page before it writes.
PagePayloads(job) ==
    {p \in get_block_payload_batch(job.chain,
                {job.headers[i].payload_hash : i \in DOMAIN job.headers}) :
        job.omit = None \/ p.payload_hash \notin job.omit.payloads}
PageSignedTxs(job) == get_signed_txs_from_payloads(PagePayloads(job))
PageTxResults(job) ==
    {r \in fetch_transactions_results({s.hash : s \in PageSignedTxs(job)}, job.chain) :
        job.omit = None \/ r.request_key \notin job.omit.results}
PageTxs(job) == get_transactions_from_payload(PageSignedTxs(job), PageTxResults(job), job.chain)
PageEvents(job) == get_events_from_txs(PageTxResults(job), PageSignedTxs(job))

\* The backfill process is alive: a panic in one job unwinds the whole sweep.
NoPanic == \A k \in DOMAIN jobs : jobs[k].pc # "panicked"

\* index_chain: the header-branch call and the loop's exits.
JobFetch(j) ==
    /\ jobs[j].pc = "fetch"
    /\ NoPanic
    /\ LET job   == jobs[j]
           items == get_block_headers_branches(job.chain, job.bounds)
           turn  == index_chain(job.bounds, items)
       IN  jobs' = [jobs EXCEPT ![j] =
                IF turn.return
                THEN [job EXCEPT !.pc = "done", !.headers = <<>>, !.written = {},
                                 !.inserted = 0, !.omit = None]
                ELSE [job EXCEPT !.pc = process_headers("fetch"), !.bounds = turn.bounds,
                                 !.headers = items, !.written = {}, !.inserted = 0,
                                 !.omit = None]]
    /\ UNCHANGED <<blocks, transactions, events, transfers, sweep, consumer, deriver, hist, scan, call,
                   balances, balancer>>

\* process_headers: the payload batch call and save_blocks.
JobSaveBlocks(j) ==
    /\ jobs[j].pc = "save_blocks"
    /\ NoPanic
    /\ LET job == jobs[j]
           res == save_blocks(blocks, job.headers, PagePayloads(job))
       IN  IF res.err = "none"
           THEN /\ blocks' = res.rows
                /\ jobs' = [jobs EXCEPT ![j] =
                        [job EXCEPT !.pc = process_headers("save_blocks"),
                                    !.written = @ \cup {"blocks"},
                                    !.inserted = @ + res.inserted]]
           ELSE /\ blocks' = blocks
                /\ jobs' = [jobs EXCEPT ![j].pc = "panicked"]
    /\ UNCHANGED <<transactions, events, transfers, sweep, consumer, deriver, hist, scan, call,
                   balances, balancer>>

\* process_headers: the poll and transactions.insert_batch (skipped when there
\* is no transaction to write).
JobInsertTxs(j) ==
    /\ jobs[j].pc = "insert_txs"
    /\ NoPanic
    /\ LET job == jobs[j]
           txs == PageTxs(job)
           res == TransactionsInsertBatch(blocks, transactions, txs)
       IN  IF txs = {}
           THEN /\ transactions' = transactions
                /\ jobs' = [jobs EXCEPT ![j].pc = process_headers("insert_txs")]
           ELSE IF res.err = "none"
           THEN /\ transactions' = res.rows
                /\ jobs' = [jobs EXCEPT ![j] =
                        [job EXCEPT !.pc = process_headers("insert_txs"),
                                    !.written = @ \cup {"transactions"},
                                    !.inserted = @ + res.inserted]]
           ELSE /\ transactions' = transactions
                /\ jobs' = [jobs EXCEPT ![j].pc = "panicked"]
    /\ UNCHANGED <<blocks, events, transfers, sweep, consumer, deriver, hist, scan, call,
                   balances, balancer>>

\* process_headers: events.insert_batch (skipped when there is no transaction or
\* no event to write).
JobInsertEvents(j) ==
    /\ jobs[j].pc = "insert_events"
    /\ NoPanic
    /\ LET job == jobs[j]
           evs == PageEvents(job)
           res == EventsInsertBatch(blocks, events, evs)
       IN  IF PageTxs(job) = {} \/ evs = {}
           THEN /\ events' = events
                /\ jobs' = [jobs EXCEPT ![j].pc = process_headers("insert_events")]
           ELSE IF res.err = "none"
           THEN /\ events' = res.rows
                /\ jobs' = [jobs EXCEPT ![j] =
                        [job EXCEPT !.pc = process_headers("insert_events"),
                                    !.written = @ \cup {"events"},
                                    !.inserted = @ + res.inserted]]
           ELSE /\ events' = events
                /\ jobs' = [jobs EXCEPT ![j].pc = "panicked"]
    /\ UNCHANGED <<blocks, transactions, transfers, sweep, consumer, deriver, hist, scan, call,
                   balances, balancer>>

JobStep(j) == JobFetch(j) \/ JobSaveBlocks(j) \/ JobInsertTxs(j) \/ JobInsertEvents(j)

\* The calls of a job that can fail where the job stands: the header-branch
\* call (index_chain), the payload batch call and the store statements
\* (process_headers).  A store statement that is skipped cannot fail.
FaultsAt(job) ==
    CASE job.pc = "fetch" -> {"header_branch"}
      [] job.pc = "save_blocks" -> {"payload", "store"}
      [] job.pc = "insert_txs" -> IF PageTxs(job) = {} THEN {} ELSE {"store"}
      [] job.pc = "insert_events" ->
            IF PageTxs(job) = {} \/ PageEvents(job) = {} THEN {} ELSE {"store"}
      [] OTHER -> {}

\* What the job does with the error: the header-branch and payload results are
\* unwrapped, and a store error is answered with panic!.
on_error(what) ==
    CASE what = "header_branch" -> "panicked"
      [] what = "payload" -> "panicked"
      [] what = "store" -> "panicked"

\* A call of the job fails: the node answers with an HTTP error or the store
\* with an error.
JobFault(j, what) ==
    /\ NoPanic
    /\ what \in FaultsAt(jobs[j])
    /\ jobs' = [jobs EXCEPT ![j].pc = on_error(what)]
    /\ UNCHANGED <<blocks, transactions, events, transfers, sweep, consumer, deriver, hist, scan, call,
                   balances, balancer>>

\* The node answers the calls of the page at hand with less than was asked:
\* the payload batch answer lacks the payloads of some hashes, and the poll
\* answers lack the entries of some request keys (left out by the node, or in
\* a chunk whose call failed, which fetch_transactions_results logs and drops).
\* hist.snap remembers the store the page found.
NodeOmits(j, payloads, results) ==
    /\ NoPanic
    /\ jobs[j].pc = "save_blocks"
    /\ jobs[j].omit = None
    /\ payloads \cup results # {}
    /\ payloads \subseteq {jobs[j].headers[i].payload_hash : i \in DOMAIN jobs[j].headers}
    /\ results \subseteq UNION {PayloadTransactions(jobs[j].headers[i].hash) :
                                  i \in DOMAIN jobs[j].headers}
    /\ jobs' = [jobs EXCEPT ![j].omit = [payloads |-> payloads, results |-> results]]
    /\ hist' = [hist EXCEPT !.snap = [blocks |-> blocks, transactions |-> transactions,
                                      events |-> events, transfers |-> transfers]]
    /\ UNCHANGED <<blocks, transactions, events, transfers, sweep, consumer, deriver, scan, call,
                   balances, balancer>>

(***************************************************************************)
(* The header stream: Indexer::listen_headers_stream, process_header and   *)
(* save_block.  The handlers of one consumer run on one task: they         *)
(* interleave at the awaits (payload, poll) only, while the statements of  *)
(* other processes may fall between any two of their store statements.     *)
(***************************************************************************)
HandlerIds == 1..MaxStreamEvents

\* The headers the stream delivers here: the tip of chain 0 and its sibling on
\* the fork.
StreamHashes == {x \in AllHashes : x[1] = 0 /\ x[2] = CutHeight(0)}

IdleHandler ==
    [pc |-> "idle", header |-> None, orphan |-> None, results |-> {}, written |-> {}]

\* try_for_each_concurrent(4, ..): the events handled at once.
StreamConcurrency == 4

InFlight == {k \in HandlerIds : consumer.handlers[k].pc \notin {"idle", "done", "failed"}}

\* The handler is between two awaits: no other handler runs.
Busy(k) ==
    consumer.handlers[k].pc \in
        {"delete_events", "delete_txs", "delete_block", "reinsert", "insert_events"}

MayRun(k) ==
    /\ consumer.pc = "running"
    /\ \A o \in HandlerIds \ {k} : ~Busy(o)

\* The statement save_block runs after the one at pc, given how that one ended.
save_block_keeps_orphan(pc, err) ==
    CASE pc = "insert" -> "poll"
      [] pc = "delete_events" -> "delete_txs"
      [] pc = "delete_txs" -> "delete_block"
      [] pc = "delete_block" -> "reinsert"
      [] pc = "reinsert" -> IF err = "none" THEN "poll" ELSE "failed"
\* save_block that deletes the block row before the rows that reference it.
save_block_block_first(pc, err) ==
    CASE pc = "insert" -> IF err = "none" THEN "poll" ELSE "delete_block"
      [] pc = "delete_block" -> "delete_events"
      [] pc = "delete_events" -> "delete_txs"
      [] pc = "delete_txs" -> "reinsert"
      [] pc = "reinsert" -> IF err = "none" THEN "poll" ELSE "failed"
save_block(pc, err) ==
    CASE pc = "insert" -> IF err = "none" THEN "poll" ELSE "delete_events"
      [] pc = "delete_events" -> "delete_txs"
      [] pc = "delete_txs" -> "delete_block"
      [] pc = "delete_block" -> "reinsert"
      [] pc = "reinsert" -> IF err = "none" THEN "poll" ELSE "failed"

HandlerPayload(h) ==
    CHOOSE p \in get_block_payload_batch(h.header.chain_id, {h.header.payload_hash}) : TRUE

\* The request keys in the payload of the handler's header.
HandlerKeys(k) ==
    IF consumer.handlers[k].header = None
    THEN {}
    ELSE PayloadTransactions(consumer.handlers[k].header.hash)

\* A BlockHeader event arrives and its handler asks for the payload.
StreamReceive(k, x) ==
    /\ consumer.pc = "running"
    /\ \A o \in HandlerIds : ~Busy(o)
    /\ k = consumer.received + 1
    /\ k \in HandlerIds
    /\ Cardinality(InFlight) < StreamConcurrency
    /\ consumer' = [consumer EXCEPT !.received = k,
                        !.handlers[k] = [IdleHandler EXCEPT !.pc = "insert",
                                                           !.header = HeaderOf(x)]]
    /\ UNCHANGED <<blocks, transactions, events, transfers, jobs, sweep, deriver, hist, scan, call,
                   balances, balancer>>

\* save_block: blocks.insert, and on UniqueViolation find_by_height.
StreamInsert(k) ==
    /\ MayRun(k)
    /\ consumer.handlers[k].pc = "insert"
    /\ LET h   == consumer.handlers[k]
           b   == build_block(h.header, HandlerPayload(h))
           res == BlocksInsert(blocks, b)
       IN  /\ blocks' = res.rows
           /\ consumer' = [consumer EXCEPT !.handlers[k] =
                   [h EXCEPT !.pc = save_block("insert", res.err),
                             !.orphan = IF res.err = "none" THEN None
                                        ELSE CHOOSE o \in BlocksFindByHeight(blocks, b.height,
                                                                              b.chain_id) : TRUE,
                             !.written = IF res.err = "none" THEN {"blocks"} ELSE {}]]
    /\ UNCHANGED <<transactions, events, transfers, jobs, sweep, deriver, hist, scan, call,
                   balances, balancer>>

\* save_block: events.delete_all_by_block(orphan)
StreamDeleteEvents(k) ==
    /\ MayRun(k)
    /\ consumer.handlers[k].pc = "delete_events"
    /\ events' = DeleteAllByBlock(events, consumer.handlers[k].orphan.hash)
    /\ consumer' = [consumer EXCEPT !.handlers[k].pc = save_block("delete_events", "none")]
    /\ UNCHANGED <<blocks, transactions, transfers, jobs, sweep, deriver, hist, scan, call,
                   balances, balancer>>

\* save_block: transactions.delete_all_by_block(orphan)
StreamDeleteTxs(k) ==
    /\ MayRun(k)
    /\ consumer.handlers[k].pc = "delete_txs"
    /\ transactions' = DeleteAllByBlock(transactions, consumer.handlers[k].orphan.hash)
    /\ consumer' = [consumer EXCEPT !.handlers[k].pc = save_block("delete_txs", "none")]
    /\ UNCHANGED <<blocks, events, transfers, jobs, sweep, deriver, hist, scan, call,
                   balances, balancer>>

\* save_block: blocks.delete_one(height, chain).unwrap()
StreamDeleteBlock(k) ==
    /\ MayRun(k)
    /\ consumer.handlers[k].pc = "delete_block"
    /\ LET h   == consumer.handlers[k]
           res == BlocksDeleteOne(blocks, transactions, events, transfers,
                                  h.header.height, h.header.chain_id)
       IN  /\ blocks' = res.rows
           /\ consumer' = IF res.err = "none"
                          THEN [consumer EXCEPT
                                    !.handlers[k].pc = save_block("delete_block", "none")]
                          ELSE [consumer EXCEPT !.pc = "panicked"]
    /\ UNCHANGED <<transactions, events, transfers, jobs, sweep, deriver, hist, scan, call,
                   balances, balancer>>

\* save_block: the second blocks.insert, whose result save_block returns.
StreamReinsert(k) ==
    /\ MayRun(k)
    /\ consumer.handlers[k].pc = "reinsert"
    /\ LET h   == consumer.handlers[k]
           res == BlocksInsert(blocks, build_block(h.header, HandlerPayload(h)))
       IN  /\ blocks' = res.rows
           /\ consumer' = [consumer EXCEPT !.handlers[k] =
                   IF res.err = "none"
                   THEN [h EXCEPT !.pc = save_block("reinsert", res.err),
                                  !.written = {"blocks"}]
                   ELSE [IdleHandler EXCEPT !.pc = save_block("reinsert", res.err),
                                            !.header = h.header]]
    /\ UNCHANGED <<transactions, events, transfers, jobs, sweep, deriver, hist, scan, call,
                   balances, balancer>>

\* process_header: the poll answers and transactions.insert_batch runs.
StreamInsertTxs(k, view) ==
    /\ MayRun(k)
    /\ consumer.handlers[k].pc = "poll"
    /\ LET h       == consumer.handlers[k]
           signed  == get_signed_txs_from_payload(HandlerPayload(h))
           results == {TxResultIn(s.hash, view[s.hash]) : s \in signed}
           txs     == get_transactions_from_payload(signed, results, h.header.chain_id)
           res     == TransactionsInsertBatch(blocks, transactions, txs)
       IN  /\ view \in [{s.hash : s \in signed} -> AllHashes]
           /\ \A rk \in DOMAIN view : view[rk] \in ResultBlocks(rk)
           /\ transactions' = res.rows
           /\ consumer' = IF res.err = "none"
                          THEN [consumer EXCEPT !.handlers[k] =
                                   [h EXCEPT !.pc = "insert_events", !.results = results,
                                             !.orphan = None,
                                             !.written = IF txs = {} THEN @
                                                         ELSE @ \cup {"transactions"}]]
                          ELSE [consumer EXCEPT !.pc = "panicked"]
    /\ UNCHANGED <<blocks, events, transfers, jobs, sweep, deriver, hist, scan, call,
                   balances, balancer>>

\* process_header: events.insert_batch
StreamInsertEvents(k) ==
    /\ MayRun(k)
    /\ consumer.handlers[k].pc = "insert_events"
    /\ LET h   == consumer.handlers[k]
           evs == get_events_from_txs(h.results,
                                      get_signed_txs_from_payload(HandlerPayload(h)))
           res == EventsInsertBatch(blocks, events, evs)
       IN  /\ events' = res.rows
           /\ consumer' = IF res.err = "none"
                          THEN [consumer EXCEPT !.handlers[k] =
                                   [IdleHandler EXCEPT !.pc = "done",
                                                       !.header = h.header]]
                          ELSE [consumer EXCEPT !.pc = "panicked"]
    /\ UNCHANGED <<blocks, transactions, transfers, jobs, sweep, deriver, hist, scan, call,
                   balances, balancer>>

StreamStep(k) ==
    \/ StreamInsert(k)
    \/ StreamDeleteEvents(k)
    \/ StreamDeleteTxs(k)
    \/ StreamDeleteBlock(k)
    \/ StreamReinsert(k)
    \/ \E view \in [HandlerKeys(k) -> AllHashes] : StreamInsertTxs(k, view)
    \/ StreamInsertEvents(k)

(***************************************************************************)
(* Transfer derivation: transfers::backfill_chain, process_transfers and   *)
(* make_transfer, run by its own process.                                  *)
(***************************************************************************)
\* EventsRepository::find_max_height: 0 for a chain with no event.
find_max_height(evs, chain_id) ==
    LET hs == {e.height : e \in {x \in evs : x.chain_id = chain_id}}
    IN  IF hs = {} THEN 0 ELSE CHOOSE h \in hs : \A o \in hs : o <= h

\* find_by_range without the rows at max_height.
EventsFindByRange_exclusive(evs, min_height, max_height, chain_id) ==
    {e \in evs : e.chain_id = chain_id /\ e.height >= min_height /\ e.height < max_height}

\* EventsRepository::find_by_range
EventsFindByRange(evs, min_height, max_height, chain_id) ==
    {e \in evs : e.chain_id = chain_id /\ e.height >= min_height /\ e.height <= max_height}

\* BlocksRepository::find_by_hashes
BlocksFindByHashes(bs, hashes) == {b \in bs : b.hash \in hashes}

is_balance_transfer(event) == event.name = "TRANSFER"

\* make_transfer: the row of a TRANSFER event, or a panic on params it unwraps.
make_transfer(event, block) ==
    LET sender   == as_str(event.params[1])
        receiver == as_str(event.params[2])
        amount   == transfer_amount(event.params[3])
    IN  IF sender = None \/ receiver = None \/ amount = Panic
        THEN Panic
        ELSE [amount |-> amount, block |-> event.block, chain_id |-> event.chain_id,
              from_account |-> sender.value, height |-> event.height, idx |-> event.idx,
              request_key |-> event.request_key, to_account |-> receiver.value]

\* process_transfers up to its insert: the transfers of the events, or a panic
\* when the block of an event is not among the blocks read or make_transfer
\* panics.
process_transfers(evs, bs) ==
    LET wanted == {e \in evs : is_balance_transfer(e)}
    IN  IF \E e \in wanted : ~\E b \in bs : b.hash = e.block
        THEN [err |-> "panic", transfers |-> {}]
        ELSE LET made == {make_transfer(e, CHOOSE b \in bs : b.hash = e.block) :
                            e \in wanted}
             IN  IF Panic \in made
                 THEN [err |-> "panic", transfers |-> {}]
                 ELSE [err |-> "none", transfers |-> made]

IdleDeriver ==
    [pc |-> "idle", chain |-> 0, batch_size |-> BatchSize, max_height |-> 0,
     batch |-> {}, runs |-> 0]

\* backfill_chain(chain_id, batch_size, .., None) is called: find_max_height.
backfill_chain(chain_id, batch_size) ==
    /\ deriver.pc \in {"idle", "done"}
    /\ deriver.runs < MaxSweeps
    /\ deriver' = [pc |-> "read", chain |-> chain_id, batch_size |-> batch_size,
                   max_height |-> find_max_height(events, chain_id),
                   batch |-> {}, runs |-> deriver.runs + 1]
    /\ hist' = [hist EXCEPT !.snap.transfers = transfers]
    /\ UNCHANGED <<blocks, transactions, events, transfers, jobs, sweep, consumer, scan, call,
                   balances, balancer>>

\* The transfer backfill as the binary runs it.
DeriveStart(c) == backfill_chain(c, BatchSize)

\* backfill_chain: one turn of the loop up to the insert: the exit test, the
\* events of the window and their blocks.
DeriveRead ==
    /\ deriver.pc = "read"
    /\ LET evs == EventsFindByRange(events, deriver.max_height - deriver.batch_size,
                                    deriver.max_height, deriver.chain)
           bs  == BlocksFindByHashes(blocks, {e.block : e \in evs})
           res == process_transfers(evs, bs)
       IN  deriver' =
             IF deriver.max_height <= 0 THEN [deriver EXCEPT !.pc = "done"]
             ELSE IF evs = {} THEN [deriver EXCEPT !.max_height = @ - deriver.batch_size]
             ELSE IF res.err # "none" THEN [deriver EXCEPT !.pc = "panicked"]
             ELSE [deriver EXCEPT !.pc = "insert", !.batch = res.transfers]
    /\ UNCHANGED <<blocks, transactions, events, transfers, jobs, sweep, consumer, hist, scan, call,
                   balances, balancer>>

\* process_transfers: transfers.insert_batch(..).unwrap(), and the window moves.
DeriveInsert ==
    /\ deriver.pc = "insert"
    /\ LET res == TransfersInsertBatch(blocks, transfers, deriver.batch)
       IN  /\ transfers' = res.rows
           /\ deriver' = IF res.err = "none"
                         THEN [deriver EXCEPT !.pc = "read", !.batch = {},
                                              !.max_height = @ - deriver.batch_size]
                         ELSE [deriver EXCEPT !.pc = "panicked"]
    /\ UNCHANGED <<blocks, transactions, events, jobs, sweep, consumer, hist, scan, call,
                   balances, balancer>>

DeriveStep == DeriveRead \/ DeriveInsert

(***************************************************************************)
(* Initial state: an empty store, nothing running.                         *)
(***************************************************************************)
IdleScan ==
    [pc |-> "idle", chain |-> 0, batch_size |-> 0, count |-> 0, min_height |-> 0,
     max_height |-> 0, last_block |-> None, gaps |-> <<>>]

NoCall == [fn |-> "none", args |-> <<>>, result |-> None]

\* The balance derivation before its first call.  batch is the vector of events
\* the window at hand loaded.  windows and snap remember, for the properties, the
\* event sets the non-empty windows of the run loaded and the balance table the
\* run found.
IdleBalancer ==
    [pc |-> "idle", kind |-> "none", chain |-> 0, batch_size |-> BatchSize,
     min_height |-> 0, max_height |-> 0, batch |-> <<>>, pending |-> <<>>,
     runs |-> 0, faults |-> 0, windows |-> <<>>, snap |-> {}]

NoSnap == [blocks |-> {}, transactions |-> {}, events |-> {}, transfers |-> {}]

HistInit ==
    [phase |-> "idle", start |-> [chain |-> 0, bounds |-> NoBounds],
     snap |-> NoSnap, pairs |-> 0, crashes |-> 0, late |-> {}]

Init ==
    /\ blocks = {}
    /\ transactions = {}
    /\ events = {}
    /\ transfers = {}
    /\ jobs = [j \in JobIds |-> IdleJob]
    /\ sweep = [pc |-> "idle", runs |-> 0, emitted |-> <<>>]
    /\ consumer = [pc |-> "running", received |-> 0,
                   handlers |-> [k \in HandlerIds |-> IdleHandler]]
    /\ deriver = IdleDeriver
    /\ hist = HistInit
    /\ scan = IdleScan
    /\ call = NoCall
    /\ balances = {}
    /\ balancer = IdleBalancer

(***************************************************************************)
(* Backfill: Indexer::backfill and Indexer::get_all_bounds.                *)
(***************************************************************************)
\* BlocksRepository::find_min_max_height_blocks: the lowest and the highest block
\* of a chain, None for a chain with no block.
find_min_max_height_blocks(bs, chain_id) ==
    LET rows == {b \in bs : b.chain_id = chain_id}
    IN  IF rows = {}
        THEN [min |-> None, max |-> None]
        ELSE [min |-> CHOOSE b \in rows : \A o \in rows : b.height <= o.height,
              max |-> CHOOSE b \in rows : \A o \in rows : b.height >= o.height]

\* The jobs get_all_bounds pushes for one chain of the cut.
get_all_bounds_min_unchecked(bs, chain) ==
    LET found == find_min_max_height_blocks(bs, chain)
    IN  IF found.min # None /\ found.max # None
        THEN <<[chain |-> chain,
                bounds |-> [lower |-> <<found.max.hash>>, upper |-> <<CutHash(chain)>>]],
               [chain |-> chain,
                bounds |-> [lower |-> <<>>, upper |-> <<found.min.hash>>]]>>
        ELSE <<[chain |-> chain, bounds |-> [lower |-> <<>>, upper |-> <<CutHash(chain)>>]]>>
get_all_bounds(bs, chain) ==
    LET found == find_min_max_height_blocks(bs, chain)
    IN  IF found.min # None /\ found.max # None
        THEN <<[chain |-> chain,
                bounds |-> [lower |-> <<found.max.hash>>, upper |-> <<CutHash(chain)>>]]>>
             \o (IF found.min.height > 0
                 THEN <<[chain |-> chain,
                         bounds |-> [lower |-> <<>>, upper |-> <<found.min.hash>>]]>>
                 ELSE <<>>)
        ELSE IF found.min = None /\ found.max = None
        THEN <<[chain |-> chain, bounds |-> [lower |-> <<>>, upper |-> <<CutHash(chain)>>]]>>
        ELSE <<>>

RECURSIVE Concat(_)
Concat(ss) == IF ss = <<>> THEN <<>> ELSE Head(ss) \o Concat(Tail(ss))

\* The chains in the order the cut lists them (the order decides nothing: every
\* job is started at once).
ChainOrder == SortDesc({<<c, c, 0>> : c \in Chains})

\* backfill: the cut is read, get_all_bounds lists the jobs and buffer_unordered
\* starts them (there are never more jobs than its four places).
BackfillStart ==
    /\ sweep.pc \in {"idle", "done"}
    /\ sweep.runs < MaxSweeps
    /\ LET emitted == Concat([i \in DOMAIN ChainOrder |->
                                    get_all_bounds(blocks, ChainOrder[i][1])])
       IN  /\ sweep' = [pc |-> "running", runs |-> sweep.runs + 1, emitted |-> emitted]
           /\ jobs' = [j \in JobIds |->
                    IF j <= Len(emitted)
                    THEN StartedJob(emitted[j].chain, emitted[j].bounds)
                    ELSE IdleJob]
    /\ UNCHANGED <<blocks, transactions, events, transfers, consumer, deriver, hist, scan, call,
                   balances, balancer>>

\* backfill: every job has returned, the results are collected and dropped.
BackfillEnd ==
    /\ sweep.pc = "running"
    /\ \A j \in JobIds : jobs[j].pc \in {"idle", "done", "failed"}
    /\ sweep' = [sweep EXCEPT !.pc = "done"]
    /\ UNCHANGED <<blocks, transactions, events, transfers, jobs, consumer, deriver, hist, scan, call,
                   balances, balancer>>

\* The backfill process is killed; what it has committed stays in the store.
BackfillCrash ==
    /\ sweep.pc = "running"
    /\ hist.crashes < MaxCrashes
    /\ sweep' = [sweep EXCEPT !.pc = "idle"]
    /\ jobs' = [j \in JobIds |-> IdleJob]
    /\ hist' = [hist EXCEPT !.crashes = @ + 1]
    /\ UNCHANGED <<blocks, transactions, events, transfers, consumer, deriver, scan, call,
                   balances, balancer>>

(***************************************************************************)
(* SpecBackfill: backfill is run, killed and run again.                    *)
(***************************************************************************)
NextBackfill ==
    \/ BackfillStart
    \/ \E j \in JobIds : JobStep(j)
    \/ BackfillEnd
    \/ BackfillCrash

SpecBackfill == Init /\ [][NextBackfill]_vars

\* C8 as claimed: a page is committed atomically, so no job is ever seen with
\* part of its page written: once a statement of the page has written, all the
\* page's blocks, transactions and events are in the store.
PageCommitAtomic ==
    \A j \in JobIds :
        jobs[j].written # {} =>
            /\ {jobs[j].headers[i].hash : i \in DOMAIN jobs[j].headers} \subseteq Hashes(blocks)
            /\ \A t \in PageTxs(jobs[j]) :
                  \E x \in transactions : TransactionKey(x) = TransactionKey(t)
            /\ \A e \in PageEvents(jobs[j]) : \E x \in events : EventKey(x) = EventKey(e)

\* C9 as claimed: when backfill was killed and a later run of it has returned,
\* every persisted block has a row for each transaction of its payload and for
\* each event of those transactions.
ResumedBackfillCompletes ==
    (hist.crashes > 0 /\ sweep.pc = "done") =>
        \A b \in blocks : \A rk \in PayloadTransactions(b.hash) :
            /\ \E t \in transactions : t.block = b.hash /\ t.request_key = rk
            /\ \A i \in 0..(EventsPerTx - 1) :
                  \E e \in events : e.block = b.hash /\ e.request_key = rk /\ e.idx = i

\* C10: for each chain of the cut get_all_bounds emits, from the chain's
\* persisted blocks at that moment, the job from the highest block (or from
\* nothing, for a chain with no block) up to the cut's hash, plus, when the
\* lowest block is above genesis, the job from nothing up to the lowest block;
\* and no other job.
GetAllBoundsEmits ==
    [][sweep'.runs # sweep.runs =>
        \A c \in Chains :
            LET rows == {b \in blocks : b.chain_id = c}
                idx  == {k \in DOMAIN sweep'.emitted : sweep'.emitted[k].chain = c}
                got  == {sweep'.emitted[k].bounds : k \in idx}
                top  == {b \in rows : \A o \in rows : o.height <= b.height}
                low  == {b \in rows : b.height > 0 /\ \A o \in rows : o.height >= b.height}
                tip  == IF rows = {}
                        THEN {[lower |-> <<>>, upper |-> <<CutHash(c)>>]}
                        ELSE {[lower |-> <<b.hash>>, upper |-> <<CutHash(c)>>] : b \in top}
                gap  == {[lower |-> <<>>, upper |-> <<b.hash>>] : b \in low}
            IN  /\ got = tip \cup gap
                /\ Cardinality(idx) = Cardinality(got)]_vars

\* A backfill has started on a store where one chain has blocks down to genesis
\* (one job) and another has blocks only above genesis (two jobs).
GetAllBoundsEmitsWitness ==
    /\ sweep.pc = "running"
    /\ \E k \in DOMAIN sweep.emitted :
          /\ sweep.emitted[k].bounds.lower = <<>>
          /\ sweep.emitted[k].bounds.upper # <<CutHash(sweep.emitted[k].chain)>>
    /\ \E c \in Chains :
          /\ Cardinality({k \in DOMAIN sweep.emitted : sweep.emitted[k].chain = c}) = 1
          /\ \E k \in DOMAIN sweep.emitted :
                sweep.emitted[k].chain = c /\ sweep.emitted[k].bounds.lower # <<>>

(***************************************************************************)
(* SpecSweep: backfill runs against a node and a store whose calls may     *)
(* fail.  buffer_unordered keeps polling every job that can take a step.   *)
(***************************************************************************)
FaultKinds == {"header_branch", "payload", "store"}

NextSweep ==
    \/ BackfillStart
    \/ \E j \in JobIds : JobStep(j)
    \/ \E j \in JobIds : \E what \in FaultKinds : JobFault(j, what)
    \/ BackfillEnd

SpecSweep ==
    /\ Init
    /\ [][NextSweep]_vars
    /\ \A j \in JobIds : WF_vars(JobStep(j))
    /\ WF_vars(BackfillEnd)

\* C11 as claimed: the failure of one traversal job does not abort the sweep:
\* once a job has failed, every other job that has not returned can still take
\* its next step (and so runs to its own completion).
SweepSurvivesJobFailure ==
    \A j \in JobIds :
        jobs[j].pc \in {"failed", "panicked"} =>
            \A k \in JobIds \ {j} :
                jobs[k].pc \in {"fetch", "save_blocks", "insert_txs", "insert_events"}
                    => ENABLED JobStep(k)

(***************************************************************************)
(* Spec: the stream consumer runs while the operator runs a backfill and a *)
(* transfer backfill, one after the other in either order.                 *)
(***************************************************************************)
Next ==
    \/ \E x \in StreamHashes : \E k \in HandlerIds : StreamReceive(k, x)
    \/ \E k \in HandlerIds : StreamStep(k)
    \/ sweep.runs = 0 /\ deriver.pc \notin {"read", "insert"} /\ BackfillStart
    \/ \E j \in JobIds : JobStep(j)
    \/ BackfillEnd
    \/ \E c \in Chains : deriver.runs = 0 /\ sweep.pc # "running" /\ DeriveStart(c)
    \/ DeriveStep

Spec == Init /\ [][Next]_vars

NoOrphanReferences ==
    /\ \A r \in transactions :
          \E b \in blocks : b.hash = r.block /\ b.chain_id = r.chain_id
    /\ \A r \in events : \E b \in blocks : b.hash = r.block /\ b.chain_id = r.chain_id
    /\ \A r \in transfers : \E b \in blocks : b.hash = r.block /\ b.chain_id = r.chain_id

\* The stream consumer has run the orphan replacement of a block whose
\* transfers were derived (the delete of the block was refused), in a store with
\* transaction and event rows of traversal pages.
NoOrphanReferencesWitness ==
    /\ \E k \in HandlerIds :
          /\ consumer.handlers[k].pc = "delete_block"
          /\ consumer.handlers[k].orphan.hash \in {t.block : t \in transfers}
    /\ consumer.pc = "panicked"
    /\ transactions # {}
    /\ events # {}
    /\ \E t \in transactions : t.chain_id # 0

\* C3: when save_block returns Ok for a block B received at a (chain, height)
\* where it found a block A of another hash, B is persisted, A is not, and no
\* transaction or event row has A as its block.
OrphanReplaced ==
    [][\A k \in HandlerIds :
        LET h == consumer'.handlers[k]
        IN  (/\ consumer.handlers[k].pc \in {"insert", "reinsert"}
             /\ h.pc = "poll"
             /\ h.orphan # None
             /\ h.orphan.hash # h.header.hash)
            => /\ h.header.hash \in Hashes(blocks')
               /\ h.orphan.hash \notin Hashes(blocks')
               /\ \A t \in transactions' : t.block # h.orphan.hash
               /\ \A e \in events' : e.block # h.orphan.hash]_vars

\* save_block has returned Ok after replacing a block of another hash.
OrphanReplacedWitness ==
    \E k \in HandlerIds :
        /\ consumer.handlers[k].pc = "poll"
        /\ consumer.handlers[k].orphan # None
        /\ consumer.handlers[k].orphan.hash # consumer.handlers[k].header.hash
        /\ consumer.handlers[k].header.hash \in Hashes(blocks)
        /\ transactions # {}

\* The handler is inside save_block's replacement of an orphan whose block row
\* is gone.
OrphanBlockGone(k) ==
    /\ consumer.handlers[k].pc \in {"delete_events", "delete_txs", "delete_block", "reinsert"}
    /\ consumer.handlers[k].orphan.hash \notin Hashes(blocks)

\* C29: a save_block that finds a block at its (chain, height) deletes the
\* events of that orphan, then its transactions, then the block row, then
\* inserts the new block, each statement following the one before; and in no
\* state inside save_block is there a transaction or event row of the orphan
\* while the orphan's block row is gone.
OrphanReplacementOrder ==
    [][\A k \in HandlerIds :
        LET h      == consumer.handlers[k]
            n      == consumer'.handlers[k]
            orphan == h.orphan.hash
        IN  /\ (h.pc = "insert" /\ n.pc \notin {"insert", "poll"}) =>
                  /\ n.pc = "delete_events"
                  /\ n.orphan \in blocks
                  /\ UNCHANGED <<blocks, transactions, events>>
            /\ (h.pc = "delete_events" /\ n.pc # h.pc) =>
                  /\ n.pc = "delete_txs"
                  /\ events' = {e \in events : e.block # orphan}
                  /\ UNCHANGED <<blocks, transactions>>
            /\ (h.pc = "delete_txs" /\ n.pc # h.pc) =>
                  /\ n.pc = "delete_block"
                  /\ transactions' = {t \in transactions : t.block # orphan}
                  /\ UNCHANGED <<blocks, events>>
            /\ (h.pc = "delete_block" /\ n.pc # h.pc) =>
                  /\ n.pc = "reinsert"
                  /\ blocks' = {b \in blocks : b.hash # orphan}
                  /\ UNCHANGED <<transactions, events>>
            /\ (h.pc = "reinsert" /\ n.pc # h.pc) =>
                  /\ n.pc = "poll" => Hashes(blocks') = Hashes(blocks) \cup {h.header.hash}
                  /\ n.pc # "poll" => n.pc = "failed" /\ UNCHANGED blocks
                  /\ UNCHANGED <<transactions, events>>
            /\ OrphanBlockGone(k) =>
                  /\ \A t \in transactions : t.block # orphan
                  /\ \A e \in events : e.block # orphan
            /\ (/\ n.pc \in {"delete_events", "delete_txs", "delete_block", "reinsert"}
                /\ n.orphan.hash \notin Hashes(blocks')) =>
                  /\ \A t \in transactions' : t.block # n.orphan.hash
                  /\ \A e \in events' : e.block # n.orphan.hash]_vars

\* C29's case: a handler stands before the insert of the new block, the block
\* row of the orphan deleted, the transaction of the orphan's height gone with
\* it, after another handler had written that block and its transaction.
OrphanReplacementOrderWitness ==
    \E k \in HandlerIds :
        /\ consumer.handlers[k].pc = "reinsert"
        /\ OrphanBlockGone(k)
        /\ consumer.handlers[k].orphan.hash # consumer.handlers[k].header.hash
        /\ transactions = {}
        /\ \E o \in HandlerIds \ {k} : consumer.handlers[o].pc = "done"

\* The handlers that have returned, with Ok or with an error.
Finished == {k \in HandlerIds : consumer.handlers[k].pc \in {"done", "failed"}}

\* Two handlers have returned whose headers have different hashes and the same
\* chain and height, and no handler is at work.
TwoHeadersFinished(k1, k2) ==
    /\ InFlight = {}
    /\ k1 \in Finished
    /\ k2 \in Finished
    /\ consumer.handlers[k1].header.hash # consumer.handlers[k2].header.hash
    /\ consumer.handlers[k1].header.chain_id = consumer.handlers[k2].header.chain_id
    /\ consumer.handlers[k1].header.height = consumer.handlers[k2].header.height

\* C30: when the handlers of two streamed headers of different hashes and one
\* (chain, height) have both returned, however they interleaved, exactly one
\* block is persisted at that chain and height, it is one of the two, and
\* every transaction and event row of that chain and height has it as its block.
TwoHeadersOneBlock ==
    \A k1, k2 \in HandlerIds :
        TwoHeadersFinished(k1, k2) =>
            LET header == consumer.handlers[k1].header
                at     == BlocksFindByHeight(blocks, header.height, header.chain_id)
            IN  /\ Cardinality(at) = 1
                /\ Hashes(at) \subseteq {consumer.handlers[k].header.hash : k \in Finished}
                /\ \A t \in transactions :
                      (t.chain_id = header.chain_id /\ t.height = header.height)
                          => t.block \in Hashes(at)
                /\ \A e \in events :
                      (e.chain_id = header.chain_id /\ e.height = header.height)
                          => e.block \in Hashes(at)

\* C30's case: the handlers of the two headers have both returned with no
\* backfill at work, the block of the second one is the one persisted, and the
\* transaction of the height and its events are persisted with it.
TwoHeadersOneBlockWitness ==
    /\ TwoHeadersFinished(1, 2)
    /\ sweep.runs = 0
    /\ consumer.handlers[2].header.hash \in Hashes(blocks)
    /\ transactions # {}
    /\ events # {}

\* C12 as claimed: the stream consumer has at most one header event in flight:
\* a handler runs from its payload call to its event insert before the handler
\* of the next event starts.
OneEventInFlight == Cardinality(InFlight) <= 1

\* C13 as claimed: no error of a header's handler (a block save error, a
\* transaction or event insert error) stops the consumer: it is still running,
\* ready for the events that follow.
StreamKeepsConsuming == consumer.pc = "running"

\* C14 as claimed: save_block never returns a unique violation to
\* process_header: the insert it repeats after removing the block found at the
\* height succeeds, whatever other block commits fall between its statements.
UniqueViolationNeverSurfaces ==
    \A k \in HandlerIds : consumer.handlers[k].pc # "failed"

\* C7: process_headers and process_header reach their transaction insert and
\* their event insert only after the block insert of the same page or header
\* has completed, so no transaction or event of a page is written before its
\* blocks.
BlocksWrittenFirst ==
    /\ \A j \in JobIds :
          (\/ jobs[j].pc \in {"insert_txs", "insert_events"}
           \/ jobs[j].written \cap {"transactions", "events"} # {})
          => "blocks" \in jobs[j].written
    /\ \A k \in HandlerIds :
          (\/ consumer.handlers[k].pc \in {"poll", "insert_events"}
           \/ consumer.handlers[k].written \cap {"transactions", "events"} # {})
          => "blocks" \in consumer.handlers[k].written

\* A job has written the blocks, transactions and events of a page, and a
\* handler has written its block and its transactions.
BlocksWrittenFirstWitness ==
    /\ \E j \in JobIds : jobs[j].written = {"blocks", "transactions", "events"}
    /\ \E k \in HandlerIds : consumer.handlers[k].written = {"blocks", "transactions"}

(***************************************************************************)
(* The gap engine: gaps::find_gaps and find_gaps_in_range.                 *)
(***************************************************************************)
\* The highest block height of the stores the gap engine is run on.
MaxScanHeight == 5
\* The largest scan window ("batch_size", 100 in the program).
MaxBatchSize == 3

\* A block row of the given chain and height (tests::make_block).
make_block(chain_id, height) ==
    [hash |-> <<chain_id, height, 0>>, chain_id |-> chain_id, height |-> height,
     parent |-> NoParent, payload |-> <<"payload", <<chain_id, height, 0>>>>]

\* BlocksRepository::count
BlocksCount(bs, chain_id) == Cardinality({b \in bs : b.chain_id = chain_id})

\* BlocksRepository::find_by_range: the rows of the chain with height in
\* [min_height, max_height], in descending height.
BlocksFindByRange(bs, min_height, max_height, chain_id) ==
    LET rows == {b \in bs : /\ b.chain_id = chain_id
                            /\ b.height >= min_height
                            /\ b.height <= max_height}
    IN  [i \in 1..Cardinality(rows) |->
            CHOOSE b \in rows : Cardinality({o \in rows : o.height > b.height}) = i - 1]

\* find_gaps: the test that spares the scan.
no_gaps(min_block, max_block, count) ==
    IF min_block.height = 0
    THEN max_block.height + 1 = count
    ELSE max_block.height - min_block.height + 1 = 0

\* find_gaps_in_range: the block the first block of a window is compared with.
first_previous_block_per_window(last_block, rows) == rows[Len(rows)]
first_previous_block(last_block, rows) ==
    IF last_block = None THEN rows[Len(rows)] ELSE last_block

\* find_gaps_in_range: the test on two blocks that follow each other in the scan.
is_gap_adjacent(previous_block, block) == previous_block.height - block.height >= 1
is_gap(previous_block, block) == previous_block.height - block.height > 1

\* find_gaps_in_range: the for loop over the rows of a window.
RECURSIVE scan_window(_, _, _)
scan_window(rows, previous_block, gaps) ==
    IF rows = <<>>
    THEN [previous_block |-> previous_block, gaps |-> gaps]
    ELSE scan_window(Tail(rows), Head(rows),
                     IF is_gap(previous_block, Head(rows))
                     THEN Append(gaps, <<Head(rows), previous_block>>)
                     ELSE gaps)

\* find_gaps is called: repository.count, and the return on an empty chain.
GapsCount(c) ==
    /\ scan.pc = "start"
    /\ LET count == BlocksCount(blocks, c)
       IN  scan' = [scan EXCEPT !.chain = c, !.count = count,
                                !.pc = IF count = 0 THEN "done" ELSE "min_max"]
    /\ UNCHANGED <<blocks, transactions, events, transfers, jobs, sweep, consumer, deriver,
                   hist, call, balances, balancer>>

\* find_gaps: find_min_max_height_blocks and the no_gaps test.
GapsMinMax ==
    /\ scan.pc = "min_max"
    /\ LET found == find_min_max_height_blocks(blocks, scan.chain)
       IN  scan' =
             IF found.min = None \/ found.max = None \/
                no_gaps(found.min, found.max, scan.count)
             THEN [scan EXCEPT !.pc = "done"]
             ELSE [scan EXCEPT !.pc = "range", !.min_height = found.min.height,
                               !.max_height = found.max.height]
    /\ UNCHANGED <<blocks, transactions, events, transfers, jobs, sweep, consumer, deriver,
                   hist, call, balances, balancer>>

\* find_gaps_in_range: one turn of the loop.
GapsRange ==
    /\ scan.pc = "range"
    /\ LET rows == BlocksFindByRange(blocks, scan.max_height - scan.batch_size,
                                     scan.max_height, scan.chain)
           res  == scan_window(rows, first_previous_block(scan.last_block, rows), scan.gaps)
       IN  scan' =
             IF scan.max_height <= scan.min_height THEN [scan EXCEPT !.pc = "done"]
             ELSE IF rows = <<>> THEN [scan EXCEPT !.max_height = @ - scan.batch_size]
             ELSE [scan EXCEPT !.max_height = @ - scan.batch_size,
                               !.last_block = res.previous_block,
                               !.gaps = res.gaps]
    /\ UNCHANGED <<blocks, transactions, events, transfers, jobs, sweep, consumer, deriver,
                   hist, call, balances, balancer>>

(***************************************************************************)
(* SpecGaps: find_gaps is called for a chain of a store that holds any set *)
(* of heights of chain 0 and two blocks of chain 1, with a scan window of  *)
(* any size.                                                               *)
(***************************************************************************)
InitGaps ==
    /\ \E hs \in SUBSET (0..MaxScanHeight) :
          blocks = {make_block(0, h) : h \in hs} \cup {make_block(1, 1), make_block(1, 3)}
    /\ transactions = {}
    /\ events = {}
    /\ transfers = {}
    /\ jobs = [j \in JobIds |-> IdleJob]
    /\ sweep = [pc |-> "idle", runs |-> 0, emitted |-> <<>>]
    /\ consumer = [pc |-> "running", received |-> 0,
                   handlers |-> [k \in HandlerIds |-> IdleHandler]]
    /\ deriver = IdleDeriver
    /\ hist = HistInit
    /\ \E size \in 1..MaxBatchSize :
          scan = [IdleScan EXCEPT !.pc = "start", !.batch_size = size]
    /\ call = NoCall
    /\ balances = {}
    /\ balancer = IdleBalancer

NextGaps ==
    \/ \E c \in Chains : GapsCount(c)
    \/ GapsMinMax
    \/ GapsRange

SpecGaps == InitGaps /\ [][NextGaps]_vars

\* The pairs of persisted blocks of the scanned chain more than one height
\* apart with no persisted block of the chain strictly between them.
GapsOf(bs, c) ==
    LET rows == {b \in bs : b.chain_id = c}
    IN  {<<lo, up>> \in rows \X rows :
            /\ up.height - lo.height > 1
            /\ ~\E b \in rows : b.height > lo.height /\ b.height < up.height}

\* C15: find_gaps returns exactly the pairs (lower_block, upper_block) of
\* persisted blocks of the chain that are more than one height apart with no
\* persisted block between them, each pair once, for every set of persisted
\* heights and every window size.
FindGapsExact ==
    scan.pc = "done" =>
        /\ {scan.gaps[i] : i \in DOMAIN scan.gaps} = GapsOf(blocks, scan.chain)
        /\ Len(scan.gaps) = Cardinality(GapsOf(blocks, scan.chain))

\* find_gaps has returned a gap that spans an empty window and whose ends were
\* read in different windows, and another gap.
FindGapsExactWitness ==
    /\ scan.pc = "done"
    /\ Len(scan.gaps) >= 2
    /\ \E i \in DOMAIN scan.gaps :
          scan.gaps[i][2].height - scan.gaps[i][1].height > 2 * scan.batch_size

\* C16: find_gaps returns an empty list when the persisted heights of the chain
\* are contiguous from the lowest to the highest, whether the lowest is 0 or
\* above 0, and when the chain has no block.
Contiguous(bs, c) ==
    LET hs == {b.height : b \in {x \in bs : x.chain_id = c}}
    IN  \A h \in hs : \A k \in hs : \A m \in h..k : m \in hs

FindGapsEmptyWhenContiguous ==
    (scan.pc = "done" /\ Contiguous(blocks, scan.chain)) => scan.gaps = <<>>

\* find_gaps has returned from its scan of a chain whose heights are contiguous
\* from a lowest height above 0, over more than one window.
FindGapsEmptyWhenContiguousWitness ==
    /\ scan.pc = "done"
    /\ Contiguous(blocks, scan.chain)
    /\ scan.count >= 3
    /\ scan.min_height > 0
    /\ scan.max_height < scan.min_height
    /\ scan.last_block # None

(***************************************************************************)
(* SpecTransfers: backfill_chain is run, and run again, on chain 0 of a    *)
(* store that holds any set of events at the heights 0..MaxEventHeight of  *)
(* chain 0 and an event of chain 1, with a window of any size.             *)
(***************************************************************************)
\* The highest event height of the stores the transfer backfill is run on.
MaxEventHeight == 3

\* An event row of the given chain, height and name (tests::make_transfer_event).
make_transfer_event(chain_id, height, name) ==
    [block |-> <<chain_id, height, 0>>, request_key |-> <<"rk", chain_id, height>>,
     idx |-> IF name = "TRANSFER" THEN 0 ELSE 1, chain_id |-> chain_id,
     height |-> height, module |-> "coin", name |-> name,
     qual_name |-> <<"coin", name>>,
     params |-> <<JsonString(<<"k", "0">>), JsonString(<<"k", "1">>),
                  JsonNumber(<<"1", ".", "1">>)>>]

InitTransfers ==
    /\ blocks = {make_block(c, h) : c \in Chains, h \in 0..MaxEventHeight}
    /\ transactions = {}
    /\ \E es \in SUBSET ((0..MaxEventHeight) \X {"TRANSFER", "MINT"}) :
          events = {make_transfer_event(0, e[1], e[2]) : e \in es}
                      \cup {make_transfer_event(1, 1, "TRANSFER")}
    /\ transfers = {}
    /\ jobs = [j \in JobIds |-> IdleJob]
    /\ sweep = [pc |-> "idle", runs |-> 0, emitted |-> <<>>]
    /\ consumer = [pc |-> "running", received |-> 0,
                   handlers |-> [k \in HandlerIds |-> IdleHandler]]
    /\ deriver = IdleDeriver
    /\ hist = HistInit
    /\ scan = IdleScan
    /\ call = NoCall
    /\ balances = {}
    /\ balancer = IdleBalancer

NextTransfers ==
    \/ \E size \in 1..MaxBatchSize : backfill_chain(0, size)
    \/ DeriveStep

SpecTransfers == InitTransfers /\ [][NextTransfers]_vars

\* The transfer rows that answer to an event: same block, chain, idx and
\* request key.
TransfersOf(e) ==
    {t \in transfers : TransferKey(t) = TransferKey(e)}

\* C17 as claimed: when backfill_chain has returned, every persisted event of
\* the chain named TRANSFER has exactly one transfer row of its key, with the
\* accounts of params[0] and params[1] and the event's height, and no event of
\* another name has a transfer row; events at height 0 included.
TransfersDerived ==
    deriver.pc = "done" =>
        \A e \in {x \in events : x.chain_id = deriver.chain} :
            IF e.name = "TRANSFER"
            THEN /\ Cardinality(TransfersOf(e)) = 1
                 /\ \A t \in TransfersOf(e) :
                       /\ t.from_account = e.params[1].str
                       /\ t.to_account = e.params[2].str
                       /\ t.height = e.height
            ELSE TransfersOf(e) = {}

\* The rows process_transfers builds from the whole event table of a chain.
Rebuilt(c) ==
    process_transfers({e \in events : e.chain_id = c}, blocks).transfers

\* C18 as claimed: a second run of backfill_chain over the same events leaves
\* the transfer table as the first run left it, and the rows rebuilt from the
\* full event table of the chain are the persisted rows of the chain.
TransferDerivationIdempotent ==
    /\ deriver.runs >= 2 => transfers = hist.snap.transfers
    /\ deriver.pc = "done" =>
          {t \in transfers : t.chain_id = deriver.chain} = Rebuilt(deriver.chain)

(***************************************************************************)
(* SpecAmount: make_transfer and balance.rs parse_transfer_event are       *)
(* called on a TRANSFER event whose params[2] is any JSON value: a number, *)
(* a string, null, an array, or an object with or without the keys         *)
(* "decimal" and "int".                                                    *)
(***************************************************************************)
\* The texts serde_json prints for a number: no leading zero before other
\* digits, and a fraction, if any, of at least one digit with no trailing zero.
IsJsonNumber(text) ==
    LET dots  == {i \in DOMAIN text : text[i] = "."}
        loc   == IF dots = {} THEN Len(text) + 1 ELSE CHOOSE i \in dots : TRUE
        int   == SubSeq(text, 1, loc - 1)
        frac  == SubSeq(text, loc + 1, Len(text))
    IN  /\ Cardinality(dots) <= 1
        /\ \A i \in DOMAIN text : IsDigit(text[i]) \/ text[i] = "."
        /\ int # <<>>
        /\ Len(int) = 1 \/ int[1] # "0"
        /\ dots # {} => frac # <<>> /\ (Len(frac) = 1 \/ frac[Len(frac)] # "0")

JsonNumbers == {JsonNumber(t) : t \in {x \in Texts : IsJsonNumber(x)}}

JsonStrings == {JsonString(t) : t \in Texts}

\* The object with the given values under "decimal" and "int" (None: no such key).
ObjectOf(decimal, int) ==
    JsonObject([k \in ((IF decimal = None THEN {} ELSE {"decimal"})
                         \cup (IF int = None THEN {} ELSE {"int"})) |->
                   IF k = "decimal" THEN decimal ELSE int])

JsonObjects ==
    {ObjectOf(d, i) :
        d \in {None, JsonNull, JsonNumber(<<"1">>)} \cup JsonStrings,
        i \in {None, JsonNumber(<<"1">>), JsonNumber(<<"1", "0">>),
               JsonNumber(<<"1", ".", "1">>), JsonString(<<"1">>)}}

JsonValues == JsonNumbers \cup JsonStrings \cup {JsonNull, JsonArray} \cup JsonObjects

\* The TRANSFER event the functions are called on.
EventWith(value) ==
    [make_transfer_event(0, 1, "TRANSFER") EXCEPT
        !.params = <<JsonString(<<"k", "0">>), JsonString(<<"k", "1">>), value>>]

\* parse_transfer_event that gives an empty account as it is.
parse_transfer_event_keeps_empty(event) ==
    LET sender   == as_str(event.params[1])
        receiver == as_str(event.params[2])
        amount   == balance_amount(event.params[3])
    IN  IF sender = None \/ receiver = None \/ amount = Panic
        THEN Panic
        ELSE [sender |-> sender, receiver |-> receiver, amount |-> amount]
\* balance.rs parse_transfer_event: (sender, receiver, amount), an empty account
\* given as None.
parse_transfer_event(event) ==
    LET sender   == as_str(event.params[1])
        receiver == as_str(event.params[2])
        amount   == balance_amount(event.params[3])
    IN  IF sender = None \/ receiver = None \/ amount = Panic
        THEN Panic
        ELSE [sender |-> IF sender.value = <<>> THEN None ELSE sender,
              receiver |-> IF receiver.value = <<>> THEN None ELSE receiver,
              amount |-> amount]

InitAmount ==
    /\ blocks = {make_block(0, 1)}
    /\ transactions = {}
    /\ events = {}
    /\ transfers = {}
    /\ jobs = [j \in JobIds |-> IdleJob]
    /\ sweep = [pc |-> "idle", runs |-> 0, emitted |-> <<>>]
    /\ consumer = [pc |-> "running", received |-> 0,
                   handlers |-> [k \in HandlerIds |-> IdleHandler]]
    /\ deriver = IdleDeriver
    /\ hist = HistInit
    /\ scan = IdleScan
    /\ \E value \in JsonValues : call = [NoCall EXCEPT !.args = <<value>>]
    /\ balances = {}
    /\ balancer = IdleBalancer

CallMakeTransfer ==
    /\ call.fn = "none"
    /\ call' = [call EXCEPT !.fn = "make_transfer",
                            !.result = make_transfer(EventWith(call.args[1]),
                                                     make_block(0, 1))]
    /\ UNCHANGED <<blocks, transactions, events, transfers, jobs, sweep, consumer, deriver,
                   hist, scan, balances, balancer>>

CallParseTransferEvent ==
    /\ call.fn = "none"
    /\ call' = [call EXCEPT !.fn = "parse_transfer_event",
                            !.result = parse_transfer_event(EventWith(call.args[1]))]
    /\ UNCHANGED <<blocks, transactions, events, transfers, jobs, sweep, consumer, deriver,
                   hist, scan, balances, balancer>>

NextAmount == CallMakeTransfer \/ CallParseTransferEvent

SpecAmount == InitAmount /\ [][NextAmount]_vars

\* The amount the rule of the claim gives for params[2].
ClaimedAmount(value) ==
    IF is_number(value)
    THEN unwrap_or_zero(BigDecimal_from_str(value.text))
    ELSE IF is_object(value) /\ "decimal" \in DOMAIN value.fields
                             /\ as_str(value.fields["decimal"]) # None
    THEN unwrap_or_zero(BigDecimal_from_str(value.fields["decimal"].str))
    ELSE IF is_object(value) /\ "int" \in DOMAIN value.fields
                             /\ as_i64(value.fields["int"]) # None
    THEN Decimal(as_i64(value.fields["int"]).value, 0)
    ELSE Decimal(0, 0)

\* C19 as claimed: make_transfer never fails on a shape of params[2], and the
\* amount of the transfer it returns is the number, the parsed "decimal" string
\* (0 when it does not parse), the "int" integer, and 0 for every other value.
AmountParsingTotal ==
    call.fn = "make_transfer" =>
        /\ call.result # Panic
        /\ call.result.amount = ClaimedAmount(call.args[1])

\* C20 as claimed: for every shape of params[2] the amount parse_transfer_event
\* computes is the amount make_transfer computes (a panic of the one being a
\* panic of the other).
SameAmountRule ==
    call.fn = "parse_transfer_event" =>
        (IF call.result = Panic THEN Panic ELSE call.result.amount)
            = transfer_amount(call.args[1])

(***************************************************************************)
(* Balance derivation: balance::calculate_balances walks the events of a   *)
(* chain in windows of heights and folds every TRANSFER into the balance   *)
(* table, one store statement after the other, nothing wrapped in a        *)
(* transaction.                                                            *)
(***************************************************************************)
\* The calls of calculate_balances a run of the derivation makes.
MaxRuns == 2

\* The store errors a run of the derivation meets.
MaxStoreErrors == 1

Some(value) == [some |-> TRUE, value |-> value]

\* BalancesRepository::find_by_account_chain_and_module
BalancesFind(table, account, chain_id, module) ==
    {r \in table : r.account = account /\ r.chain_id = chain_id /\ r.module = module}

\* BalancesRepository::insert
BalancesInsert(table, balance) == table \cup {balance}

\* BalancesRepository::update: UPDATE balances SET amount = .. WHERE account,
\* chain_id and qual_name are those of the given row.
BalancesUpdate(table, balance) ==
    {IF /\ r.account = balance.account
        /\ r.chain_id = balance.chain_id
        /\ r.qual_name = balance.qual_name
     THEN [r EXCEPT !.amount = balance.amount]
     ELSE r : r \in table}

\* update_account_balance that stores the change in place of the sum.
update_account_balance_overwrite(table, account, chain_id, qual_name, module, height, change) ==
    LET found == BalancesFind(table, account, chain_id, module)
    IN  IF found # {}
        THEN LET balance == CHOOSE r \in found : TRUE
                 new_balance == [balance EXCEPT !.amount = change, !.height = height]
             IN  BalancesUpdate(table, new_balance)
        ELSE BalancesInsert(table, [account |-> account, chain_id |-> chain_id,
                                    qual_name |-> qual_name, module |-> module,
                                    amount |-> change, height |-> height])

\* update_account_balance: the table after the call.  A row is inserted only
\* after a find of its account, chain and module found none, so that the find
\* has at most one row to return.
update_account_balance(table, account, chain_id, qual_name, module, height, change) ==
    LET found == BalancesFind(table, account, chain_id, module)
    IN  IF found # {}
        THEN LET balance == CHOOSE r \in found : TRUE
                 new_balance == [balance EXCEPT
                                    !.amount = DecimalAdd(balance.amount, change),
                                    !.height = height]
             IN  BalancesUpdate(table, new_balance)
        ELSE BalancesInsert(table, [account |-> account, chain_id |-> chain_id,
                                    qual_name |-> qual_name, module |-> module,
                                    amount |-> change, height |-> height])

\* The body of the loop of update_balances: the calls of update_account_balance
\* an event leads to, the sender's before the receiver's, or the panic of
\* parse_transfer_event.
EventUpdates(event) ==
    IF ~is_balance_transfer(event) THEN <<>>
    ELSE LET parsed == parse_transfer_event(event)
             update(account, change) ==
                 [account |-> account, chain_id |-> event.chain_id,
                  qual_name |-> event.qual_name, module |-> event.module,
                  height |-> event.height, change |-> change]
         IN  IF parsed = Panic THEN <<Panic>>
             ELSE (IF parsed.sender = None THEN <<>>
                   ELSE <<update(parsed.sender.value, DecimalNeg(parsed.amount))>>)
                  \o (IF parsed.receiver = None THEN <<>>
                      ELSE <<update(parsed.receiver.value, parsed.amount)>>)

\* update_balances: the calls it makes for a batch, in the order of the batch.
RECURSIVE update_balances(_)
update_balances(batch) ==
    IF batch = <<>> THEN <<>>
    ELSE EventUpdates(Head(batch)) \o update_balances(Tail(batch))

\* The orders ORDER BY height ASC may return a set of rows in: rows of one
\* height come in any order.
RECURSIVE HeightOrders(_)
HeightOrders(rows) ==
    IF rows = {} THEN {<<>>}
    ELSE LET lowest == CHOOSE h \in {r.height : r \in rows} :
                           \A r \in rows : h <= r.height
             first  == {r \in rows : r.height = lowest}
             perms  == {p \in [1..Cardinality(first) -> first] :
                           \A i, j \in DOMAIN p : i # j => p[i] # p[j]}
         IN  {p \o rest : p \in perms, rest \in HeightOrders(rows \ first)}

\* calculate_balances is called: min_height is the starting height, or 0.
calculate_balances(chain_id, batch_size, starting_height) ==
    /\ balancer.pc \in {"idle", "done", "failed"}
    /\ balancer.runs < MaxRuns
    /\ balancer' = [balancer EXCEPT
                       !.pc = "find_max_height",
                       !.kind = IF balancer.pc = "idle" THEN "first"
                                ELSE IF balancer.pc = "done" THEN "again" ELSE "resume",
                       !.chain = chain_id,
                       !.batch_size = batch_size,
                       !.min_height = IF starting_height = None THEN 0
                                      ELSE starting_height.value,
                       !.batch = <<>>,
                       !.pending = <<>>,
                       !.runs = @ + 1,
                       !.windows = <<>>,
                       !.snap = balances]
    /\ UNCHANGED <<blocks, transactions, events, transfers, jobs, sweep, consumer, deriver,
                   hist, scan, call, balances>>

\* let max_height = repository.find_max_height(chain_id)?
BalanceMaxHeight ==
    /\ balancer.pc = "find_max_height"
    /\ balancer' = [balancer EXCEPT !.pc = "loop",
                                    !.max_height = find_max_height(events, balancer.chain)]
    /\ UNCHANGED <<blocks, transactions, events, transfers, jobs, sweep, consumer, deriver,
                   hist, scan, call, balances>>

\* The head of the loop: the break, or find_by_range of the window
\* [min_height, min_height + batch_size] and, on an empty window, the next one.
BalanceWindow ==
    /\ balancer.pc = "loop"
    /\ IF balancer.min_height > balancer.max_height
       THEN balancer' = [balancer EXCEPT !.pc = "done"]
       ELSE LET found == EventsFindByRange(events, balancer.min_height,
                                           balancer.min_height + balancer.batch_size,
                                           balancer.chain)
            IN  IF found = {}
                THEN balancer' = [balancer EXCEPT !.min_height = @ + balancer.batch_size]
                ELSE \E batch \in HeightOrders(found) :
                        balancer' = [balancer EXCEPT
                                        !.pc = "update_balances",
                                        !.batch = batch,
                                        !.pending = update_balances(batch),
                                        !.windows = Append(@, found)]
    /\ UNCHANGED <<blocks, transactions, events, transfers, jobs, sweep, consumer, deriver,
                   hist, scan, call, balances>>

\* update_balances: the next call of update_account_balance, or the panic of
\* parse_transfer_event; after the last one the loop moves past the window.
BalanceUpdate ==
    /\ balancer.pc = "update_balances"
    /\ IF balancer.pending = <<>>
       THEN /\ balancer' = [balancer EXCEPT
                               !.pc = "loop",
                               !.batch = <<>>,
                               !.min_height = @ + balancer.batch_size + 1]
            /\ UNCHANGED balances
       ELSE LET next == Head(balancer.pending)
            IN  IF next = Panic
                THEN /\ balancer' = [balancer EXCEPT !.pc = "panicked"]
                     /\ UNCHANGED balances
                ELSE /\ balances' = update_account_balance(
                                        balances, next.account, next.chain_id,
                                        next.qual_name, next.module, next.height,
                                        next.change)
                     /\ balancer' = [balancer EXCEPT !.pending = Tail(@)]
    /\ UNCHANGED <<blocks, transactions, events, transfers, jobs, sweep, consumer, deriver,
                   hist, scan, call>>

BalanceStep == BalanceMaxHeight \/ BalanceWindow \/ BalanceUpdate

\* A store call of the derivation returns an error: `?` returns it from
\* calculate_balances.
BalanceStoreError ==
    /\ \/ balancer.pc = "find_max_height"
       \/ balancer.pc = "loop" /\ balancer.min_height <= balancer.max_height
       \/ balancer.pc = "update_balances" /\ balancer.pending # <<>>
                                          /\ Head(balancer.pending) # Panic
    /\ balancer.faults < MaxStoreErrors
    /\ balancer' = [balancer EXCEPT !.pc = "failed", !.faults = @ + 1]
    /\ UNCHANGED <<blocks, transactions, events, transfers, jobs, sweep, consumer, deriver,
                   hist, scan, call, balances>>

(***************************************************************************)
(* SpecBalances: calculate_balances is run on chain 0 of a store that      *)
(* holds any subset of a pool of events (a mint, a burn, a self-send, two  *)
(* events of one height, events of two modules, an event that is no        *)
(* TRANSFER) and an event of chain 1, with a window of any size; it may    *)
(* meet a store error and be resumed, or be run a second time.             *)
(***************************************************************************)
Alice == <<"k", "0">>
Bob == <<"k", "1">>

\* An event row as tests::test_calculate_balances builds them.
make_balance_event(chain_id, height, idx, module, name, sender, receiver, amount) ==
    [block |-> <<chain_id, height, 0>>, request_key |-> <<"rk", chain_id, height>>,
     idx |-> idx, chain_id |-> chain_id, height |-> height, module |-> module,
     name |-> name, qual_name |-> <<module, name>>,
     params |-> <<JsonString(sender), JsonString(receiver), amount>>]

SelfSend == make_balance_event(0, 1, 0, "coin", "TRANSFER", Alice, Alice,
                               JsonNumber(<<"1", ".", "1">>))

BalanceEventPool ==
    {make_balance_event(0, 0, 0, "coin", "TRANSFER", <<>>, Alice,
                        JsonNumber(<<"1", ".", "1">>)),
     make_balance_event(0, 0, 1, "coin", "TRANSFER", Alice, Bob, JsonNumber(<<"1">>)),
     SelfSend,
     make_balance_event(0, 1, 1, "coin", "MINT", <<>>, Bob, JsonNumber(<<"1">>)),
     make_balance_event(0, MaxEventHeight - 1, 0, "coin", "TRANSFER", Bob, Alice,
                        ObjectOf(JsonString(<<"0", ".", "1">>), None)),
     make_balance_event(0, MaxEventHeight, 0, "coin", "TRANSFER", Bob, <<>>,
                        JsonNumber(<<"1">>)),
     make_balance_event(0, MaxEventHeight, 1, "free", "TRANSFER", Alice, Bob,
                        JsonNumber(<<"1">>))}

InitBalances ==
    /\ blocks = {make_block(c, h) : c \in Chains, h \in 0..MaxEventHeight}
    /\ transactions = {}
    /\ \E es \in SUBSET BalanceEventPool :
          events = es \cup {make_balance_event(1, 1, 0, "coin", "TRANSFER", Alice, Bob,
                                               JsonNumber(<<"1">>))}
    /\ transfers = {}
    /\ jobs = [j \in JobIds |-> IdleJob]
    /\ sweep = [pc |-> "idle", runs |-> 0, emitted |-> <<>>]
    /\ consumer = [pc |-> "running", received |-> 0,
                   handlers |-> [k \in HandlerIds |-> IdleHandler]]
    /\ deriver = IdleDeriver
    /\ hist = HistInit
    /\ scan = IdleScan
    /\ call = NoCall
    /\ balances = {}
    /\ balancer = IdleBalancer

\* The first call, on the empty balance table.
BalanceStart ==
    /\ balancer.pc = "idle"
    /\ \E size \in 1..MaxBatchSize : calculate_balances(0, size, None)

\* A second call after the derivation has returned Ok.
BalanceAgain ==
    /\ balancer.pc = "done"
    /\ calculate_balances(balancer.chain, balancer.batch_size, None)

\* The derivation is resumed after an error, from the first height of the
\* window that failed or from a lower one.
BalanceResume ==
    /\ balancer.pc = "failed"
    /\ \E h \in 0..balancer.min_height :
          calculate_balances(balancer.chain, balancer.batch_size, Some(h))

NextBalances ==
    \/ BalanceStart
    \/ BalanceAgain
    \/ BalanceResume
    \/ BalanceStep
    \/ BalanceStoreError

SpecBalances == InitBalances /\ [][NextBalances]_vars

\* The TRANSFER events of a chain and module.
TransferEvents(c, m) ==
    {e \in events : e.chain_id = c /\ e.module = m /\ e.name = "TRANSFER"}

\* The sum of the amounts of a set of events.
RECURSIVE AmountSum(_)
AmountSum(es) ==
    IF es = {} THEN Decimal(0, 0)
    ELSE LET e == CHOOSE x \in es : TRUE
         IN  DecimalAdd(ClaimedAmount(e.params[3]), AmountSum(es \ {e}))

\* The accounts and modules the events and the balance rows name.
AccountsSeen ==
    {e.params[1].str : e \in events} \cup {e.params[2].str : e \in events}
        \cup {r.account : r \in balances}

ModulesSeen == {e.module : e \in events} \cup {r.module : r \in balances}

\* The amounts of a balance table, by account, chain and module.
AmountsOf(table) ==
    {[account |-> r.account, chain_id |-> r.chain_id, module |-> r.module,
      amount |-> r.amount] : r \in table}

\* C21: when the first calculate_balances, on the empty table, has returned
\* Ok, every account with an event or a row has, per module, at most one
\* balance row of the chain, whose amount (0 without a row) is the sum of the
\* amounts of the TRANSFER events it receives minus the sum of those it sends;
\* no row has an empty account or another chain.
BalanceFoldLaw ==
    (balancer.kind = "first" /\ balancer.pc = "done") =>
        /\ \A r \in balances : r.chain_id = balancer.chain /\ r.account # <<>>
        /\ \A a \in AccountsSeen \ {<<>>}, m \in ModulesSeen :
              LET rows     == BalancesFind(balances, a, balancer.chain, m)
                  received == {e \in TransferEvents(balancer.chain, m) :
                                  e.params[2].str = a}
                  sent     == {e \in TransferEvents(balancer.chain, m) :
                                  e.params[1].str = a}
                  sum      == DecimalAdd(AmountSum(received), DecimalNeg(AmountSum(sent)))
              IN  /\ Cardinality(rows) <= 1
                  /\ \A r \in rows : r.amount = sum
                  /\ rows = {} => sum = Decimal(0, 0)

\* C21's case: a first run has returned after several windows over events
\* that hold the self-send, and has left a balance that is not zero.
BalanceFoldLawWitness ==
    /\ balancer.kind = "first"
    /\ balancer.pc = "done"
    /\ Len(balancer.windows) >= 2
    /\ SelfSend \in events
    /\ \E r \in balances : r.account = Alice /\ r.amount # Decimal(0, 0)

\* The table update_balances leaves when it makes the given calls.
RECURSIVE ApplyUpdates(_, _)
ApplyUpdates(updates, table) ==
    IF updates = <<>> THEN table
    ELSE LET next == Head(updates)
         IN  ApplyUpdates(Tail(updates),
                          update_account_balance(table, next.account, next.chain_id,
                                                 next.qual_name, next.module,
                                                 next.height, next.change))

\* The balance table one window that holds every event of the chain gives.
OneWindow(c) ==
    LET found == {e \in events : e.chain_id = c}
        batch == CHOOSE b \in HeightOrders(found) : TRUE
    IN  ApplyUpdates(update_balances(batch), {})

\* C22: when the first calculate_balances, on the empty table, has returned
\* Ok, whatever its batch size, every event of the chain was loaded by exactly
\* one non-empty window, and the balance amounts are those of a run with one
\* window that holds every event.
BatchingIndependent ==
    (balancer.kind = "first" /\ balancer.pc = "done") =>
        /\ \A e \in {x \in events : x.chain_id = balancer.chain} :
              Cardinality({i \in DOMAIN balancer.windows : e \in balancer.windows[i]}) = 1
        /\ AmountsOf(balances) = AmountsOf(OneWindow(balancer.chain))

\* C22's case: a first run with a window of more than two heights has
\* returned after several non-empty windows.
BatchingIndependentWitness ==
    /\ balancer.kind = "first"
    /\ balancer.pc = "done"
    /\ balancer.batch_size > 1
    /\ Len(balancer.windows) >= 2
    /\ Cardinality(balances) >= 2

\* A step of update_balances that has made the next call of
\* update_account_balance.
BalanceUpdated ==
    /\ balancer.pc = "update_balances"
    /\ balancer.pending # <<>>
    /\ balancer'.pc = "update_balances"
    /\ balancer'.pending = Tail(balancer.pending)

\* C23 as claimed: a call of update_account_balance leaves exactly one row of
\* the account, chain and module; its amount is the old amount plus the change
\* and its height the height of the event when a row existed, and the change
\* and the height of the event otherwise.
UpsertRule ==
    [][BalanceUpdated =>
          LET next == Head(balancer.pending)
              old  == BalancesFind(balances, next.account, next.chain_id, next.module)
              new  == BalancesFind(balances', next.account, next.chain_id, next.module)
          IN  /\ Cardinality(new) = 1
              /\ \A r \in new :
                    /\ r.height = next.height
                    /\ r.amount = IF old = {} THEN next.change
                                  ELSE DecimalAdd((CHOOSE o \in old : TRUE).amount,
                                                  next.change)]_vars

\* C24 as claimed: when a second calculate_balances over the same events has
\* returned, every balance amount is what it was when the second run began.
SecondRunIdempotent ==
    (balancer.kind = "again" /\ balancer.pc = "done") =>
        AmountsOf(balances) = AmountsOf(balancer.snap)

\* C25 as claimed: after a store error nothing more is applied, and when the
\* derivation, resumed after each error from the first height of the window
\* that failed or a lower one, has returned Ok, the balance amounts are those
\* of a run without error.
ResumedBalancesComplete ==
    /\ balancer.pc = "failed" => ~ENABLED BalanceStep
    /\ (/\ balancer.kind = "resume"
        /\ balancer.pc = "done"
        /\ balancer.faults = balancer.runs - 1) =>
            AmountsOf(balances) = AmountsOf(OneWindow(balancer.chain))

\* C34 as claimed: the events of a batch are applied in ascending (height, idx)
\* order: in the vector update_balances walks no event comes before an event
\* of a lower height, or of the same height and a lower idx.
EventsAppliedInOrder ==
    balancer.pc = "update_balances" =>
        \A i, j \in DOMAIN balancer.batch :
            i < j =>
                \/ balancer.batch[i].height < balancer.batch[j].height
                \/ /\ balancer.batch[i].height = balancer.batch[j].height
                   /\ balancer.batch[i].idx <= balancer.batch[j].idx

\* A TRANSFER event of chain 0 with an empty sender (a mint), with an empty
\* receiver (a burn).
IsMint(e) ==
    /\ e.chain_id = 0 /\ is_balance_transfer(e)
    /\ e.params[1].str = <<>> /\ e.params[2].str # <<>>
IsBurn(e) ==
    /\ e.chain_id = 0 /\ is_balance_transfer(e)
    /\ e.params[2].str = <<>> /\ e.params[1].str # <<>>

\* C36: an empty sender or receiver is absent.  No balance row ever has an
\* empty account; update_balances makes for a mint the one call that credits
\* the receiver and for a burn the one call that debits the sender, and no
\* call for an empty account; and a first run over a mint alone, or a burn
\* alone, leaves the one row of the receiver with the amount, or of the
\* sender with the negated amount.
EmptyAccountAbsent ==
    /\ \A r \in balances : r.account # <<>>
    /\ balancer.pc = "find_max_height" =>
          \A e \in events :
              (is_balance_transfer(e) /\ parse_transfer_event(e) # Panic) =>
                  LET calls  == EventUpdates(e)
                      amount == parse_transfer_event(e).amount
                  IN  /\ \A i \in DOMAIN calls : calls[i].account # <<>>
                      /\ IsMint(e) =>
                            /\ Len(calls) = 1
                            /\ calls[1].account = e.params[2].str
                            /\ calls[1].change = amount
                      /\ IsBurn(e) =>
                            /\ Len(calls) = 1
                            /\ calls[1].account = e.params[1].str
                            /\ calls[1].change = DecimalNeg(amount)
    /\ (balancer.kind = "first" /\ balancer.pc = "done") =>
          \A e \in {x \in events : IsMint(x) \/ IsBurn(x)} :
              {x \in events : x.chain_id = 0 /\ is_balance_transfer(x)} = {e} =>
                  AmountsOf(balances) =
                      {[account |-> IF IsMint(e) THEN e.params[2].str
                                    ELSE e.params[1].str,
                        chain_id |-> 0, module |-> e.module,
                        amount |-> IF IsMint(e)
                                   THEN parse_transfer_event(e).amount
                                   ELSE DecimalNeg(parse_transfer_event(e).amount)]}

\* C36's case: a first run has returned over a mint and a burn and has left
\* the row of the mint's receiver and the row of the burn's sender.
EmptyAccountAbsentWitness ==
    /\ balancer.kind = "first"
    /\ balancer.pc = "done"
    /\ \E m \in events : IsMint(m) /\ \E r \in balances : r.account = m.params[2].str
    /\ \E b \in events : IsBurn(b) /\ \E r \in balances : r.account = b.params[1].str

(***************************************************************************)
(* SpecHealth: GET /health-check is served on a store that holds any set   *)
(* of blocks of the two chains, up to one height above the cut; the node   *)
(* may fail to serve the cut and a read of the store may fail.             *)
(***************************************************************************)
\* chainweb_client get_cut: the cut of the node, a BlockHash by chain.
get_cut == [c \in Chains |-> [height |-> CutHeight(c), hash |-> CutHash(c)]]

HttpResponse(status, body) == [status |-> status, body |-> body]

\* The test of health_check with the chains behind the node only.
not_in_sync_behind(db_height, blockchain_height) == db_height < blockchain_height

\* if db_height != blockchain_height
not_in_sync(db_height, blockchain_height) == db_height # blockchain_height

\* The loop of health_check over the chains of the cut, in the order the
\* HashMap gives them; failing holds the chains whose store read returns an error.
RECURSIVE health_check_chains(_, _, _, _)
health_check_chains(cut, order, bs, failing) ==
    IF order = <<>> THEN HttpResponse(200, [text |-> "OK"])
    ELSE LET chain_id          == Head(order)
             blockchain_height == cut[chain_id].height
             max_block         == find_min_max_height_blocks(bs, chain_id).max
         IN  IF chain_id \in failing
             THEN HttpResponse(500, [text |-> "Internal Server Error"])
             ELSE IF max_block = None
             THEN HttpResponse(400, [text |-> "No blocks found in database"])
             ELSE IF not_in_sync(max_block.height, blockchain_height)
             THEN HttpResponse(400, [text |-> "Chain {} not in sync: DB height {}, Blockchain height {}",
                                     chain |-> chain_id, db_height |-> max_block.height,
                                     blockchain_height |-> blockchain_height])
             ELSE health_check_chains(cut, Tail(order), bs, failing)

\* The orders a HashMap may iterate a set of keys in.
IterationOrders(keys) ==
    {p \in [1..Cardinality(keys) -> keys] : \A i, j \in DOMAIN p : i # j => p[i] # p[j]}

InitHealth ==
    /\ \E bs \in SUBSET {make_block(c, h) : c \in Chains, h \in 0..(MaxHeight + 1)} :
          blocks = bs
    /\ transactions = {}
    /\ events = {}
    /\ transfers = {}
    /\ jobs = [j \in JobIds |-> IdleJob]
    /\ sweep = [pc |-> "idle", runs |-> 0, emitted |-> <<>>]
    /\ consumer = [pc |-> "running", received |-> 0,
                   handlers |-> [k \in HandlerIds |-> IdleHandler]]
    /\ deriver = IdleDeriver
    /\ hist = HistInit
    /\ scan = IdleScan
    /\ call = NoCall
    /\ balances = {}
    /\ balancer = IdleBalancer

\* health_check: the cut is asked of the node; without it the answer is 400.
HealthCheckCut ==
    /\ call.fn = "none"
    /\ \E fetched \in BOOLEAN :
          call' = IF fetched
                  THEN [fn |-> "health_check", args |-> <<get_cut>>, result |-> None]
                  ELSE [fn |-> "health_check", args |-> <<None>>,
                        result |-> HttpResponse(400,
                                      [text |-> "Failed to get cut from blockchain node"])]
    /\ UNCHANGED <<blocks, transactions, events, transfers, jobs, sweep, consumer, deriver,
                   hist, scan, balances, balancer>>

\* health_check: the chains of the cut are compared with the store.
HealthCheckChains ==
    /\ call.fn = "health_check"
    /\ call.result = None
    /\ \E order \in IterationOrders(DOMAIN call.args[1]), failing \in SUBSET Chains :
          call' = [call EXCEPT
                      !.args = <<call.args[1], order, failing>>,
                      !.result = health_check_chains(call.args[1], order, blocks, failing)]
    /\ UNCHANGED <<blocks, transactions, events, transfers, jobs, sweep, consumer, deriver,
                   hist, scan, balances, balancer>>

NextHealth == HealthCheckCut \/ HealthCheckChains

SpecHealth == InitHealth /\ [][NextHealth]_vars

\* The height of the highest persisted block of a chain, None without a block.
PersistedHeight(c) ==
    LET hs == {b.height : b \in {x \in blocks : x.chain_id = c}}
    IN  IF hs = {} THEN None ELSE Some(CHOOSE h \in hs : \A o \in hs : o <= h)

\* C26: when health_check has answered and no read of the store has failed
\* (a failed read is answered with 500, and only a failed read is), the status
\* is 200 if and only if the cut was fetched and every chain of the cut has a
\* highest persisted block at the cut height of the chain, and 400 otherwise;
\* a body that reports a chain out of sync names a chain whose persisted
\* height differs from its height in the cut, with both heights.
HealthCheckInSync ==
    (call.fn = "health_check" /\ call.result # None) =>
        LET response == call.result
            fetched  == call.args[1] # None
            in_sync  == /\ fetched
                        /\ \A c \in Chains : PersistedHeight(c) = Some(CutHeight(c))
        IN  /\ response.status = 500 => fetched /\ call.args[3] # {}
            /\ response.status # 500 =>
                  /\ response.status = 200 <=> in_sync
                  /\ ~in_sync => response.status = 400
                  /\ "chain" \in DOMAIN response.body =>
                        /\ response.body.chain \in Chains
                        /\ PersistedHeight(response.body.chain)
                               = Some(response.body.db_height)
                        /\ response.body.blockchain_height
                               = CutHeight(response.body.chain)
                        /\ response.body.db_height # response.body.blockchain_height

\* C26's case: an answer of 400 that names a chain one block behind the node,
\* while another chain is in sync.
HealthCheckBehindWitness ==
    /\ call.fn = "health_check"
    /\ call.result # None
    /\ call.result.status = 400
    /\ "chain" \in DOMAIN call.result.body
    /\ call.result.body.db_height + 1 = call.result.body.blockchain_height
    /\ \E c \in Chains : PersistedHeight(c) = Some(CutHeight(c))

(***************************************************************************)
(* SpecOmit: index_chain walks a canonical branch of a chain from any of   *)
(* its blocks down to genesis on an empty store, while the node may leave  *)
(* payloads out of a payload batch answer and entries out of the poll      *)
(* answers of a page.                                                      *)
(***************************************************************************)
OmitStart(c, upper) ==
    /\ jobs[1].pc = "idle"
    /\ jobs' = [jobs EXCEPT ![1] = StartedJob(c, [lower |-> <<>>, upper |-> <<upper>>])]
    /\ UNCHANGED <<blocks, transactions, events, transfers, sweep, consumer, deriver, hist,
                   scan, call, balances, balancer>>

NextOmit ==
    \/ \E c \in Chains : \E upper \in {x \in CanonicalHashes : x[1] = c} :
          OmitStart(c, upper)
    \/ \E payloads \in SUBSET {<<"payload", x>> : x \in CanonicalHashes} :
          \E results \in SUBSET UNION {PayloadTransactions(x) : x \in CanonicalHashes} :
             NodeOmits(1, payloads, results)
    \/ JobStep(1)

SpecOmit == Init /\ [][NextOmit]_vars

\* The job has come to the end of process_headers for a page the node left
\* something out of.
PageDone(job) == job.pc = "fetch" /\ job.headers # <<>> /\ job.omit # None

\* The request keys of the transactions in the payloads of the page.
PageRequestKeys(job) ==
    UNION {PayloadTransactions(job.headers[i].hash) : i \in DOMAIN job.headers}

\* C27: when the poll answers of a page lack entries (and its payloads are
\* all there), the job neither fails nor panics, and at the end of the page
\* no transaction or event row of a request key without entry has been
\* written, while every other transaction of the page has its row, in the
\* block its result names, and all of its events.
MissingResultDropsOnlyItsTransaction ==
    \A j \in JobIds :
        (jobs[j].omit # None /\ jobs[j].omit.payloads = {}) =>
            /\ jobs[j].pc \notin {"panicked", "failed"}
            /\ PageDone(jobs[j]) =>
                  \A rk \in PageRequestKeys(jobs[j]) :
                      IF rk \in jobs[j].omit.results
                      THEN /\ ~\E t \in transactions \ hist.snap.transactions :
                                  t.request_key = rk
                           /\ ~\E e \in events \ hist.snap.events : e.request_key = rk
                      ELSE /\ \E t \in transactions :
                                  /\ t.request_key = rk
                                  /\ t.block = TxResult(rk).block_hash
                           /\ Cardinality({e \in events : e.request_key = rk})
                                  = EventsPerTx

\* C27's case: a page of two transactions has ended, the poll had left out
\* the entry of one of them, and the other one was written by the page.
MissingResultWitness ==
    \E j \in JobIds :
        /\ PageDone(jobs[j])
        /\ jobs[j].omit.payloads = {}
        /\ \E missing, returned \in PageRequestKeys(jobs[j]) :
              /\ missing \in jobs[j].omit.results
              /\ returned \notin jobs[j].omit.results
              /\ \E t \in transactions \ hist.snap.transactions :
                    t.request_key = returned

\* C28 as claimed: when the payload batch answer of a page lacks payloads, the
\* job neither fails nor panics, and at the end of the page the blocks of the
\* headers with a payload are persisted and no block of a header without one
\* has been written.
MissingPayloadTolerated ==
    \A j \in JobIds :
        (jobs[j].omit # None /\ jobs[j].omit.payloads # {}) =>
            /\ jobs[j].pc \notin {"panicked", "failed"}
            /\ PageDone(jobs[j]) =>
                  \A i \in DOMAIN jobs[j].headers :
                      LET header == jobs[j].headers[i]
                      IN  IF header.payload_hash \in jobs[j].omit.payloads
                          THEN header.hash \notin Hashes(blocks) \ Hashes(hist.snap.blocks)
                          ELSE header.hash \in Hashes(blocks)

(***************************************************************************)
(* Gap filling: gaps::fill_gaps.                                           *)
(***************************************************************************)
\* find_gaps_in_range as one computation, with the largest scan window.
RECURSIVE find_gaps_in_range(_, _, _, _, _, _)
find_gaps_in_range(bs, min_height, max_height, chain, gaps, last_block) ==
    IF max_height <= min_height
    THEN gaps
    ELSE LET rows == BlocksFindByRange(bs, max_height - MaxBatchSize, max_height, chain)
             res  == scan_window(rows, first_previous_block(last_block, rows), gaps)
         IN  IF rows = <<>>
             THEN find_gaps_in_range(bs, min_height, max_height - MaxBatchSize, chain,
                                     gaps, last_block)
             ELSE find_gaps_in_range(bs, min_height, max_height - MaxBatchSize, chain,
                                     res.gaps, res.previous_block)

\* find_gaps as one computation: the pairs (lower_block, upper_block).
find_gaps(bs, chain) ==
    LET count == BlocksCount(bs, chain)
        found == find_min_max_height_blocks(bs, chain)
    IN  IF count = 0 THEN <<>>
        ELSE IF found.min = None \/ found.max = None THEN <<>>
        ELSE IF no_gaps(found.min, found.max, count) THEN <<>>
        ELSE find_gaps_in_range(bs, found.min.height, found.max.height, chain, <<>>, None)

\* The bounds of the traversal fill_gaps starts for a gap.
gap_bounds_swapped(gap) == [lower |-> <<gap[2].hash>>, upper |-> <<gap[1].hash>>]
gap_bounds(gap) == [lower |-> <<gap[1].hash>>, upper |-> <<gap[2].hash>>]

\* fill_gaps: the cut is read and find_gaps is run for every chain of it, in
\* the order the cut's map lists them.  hist.snap remembers the store found.
FillGapsStart(order) ==
    /\ sweep.pc \in {"idle", "done"}
    /\ sweep.runs < MaxSweeps
    /\ sweep' = [pc |-> "filling", runs |-> sweep.runs + 1,
                 emitted |-> [i \in DOMAIN order |->
                                 [chain |-> order[i], gaps |-> find_gaps(blocks, order[i])]]]
    /\ hist' = [hist EXCEPT !.snap = [blocks |-> blocks, transactions |-> transactions,
                                      events |-> events, transfers |-> transfers]]
    /\ UNCHANGED <<blocks, transactions, events, transfers, jobs, consumer, deriver, scan,
                   call, balances, balancer>>

\* fill_gaps: the loop over the chains.  The traversals of the gaps of the
\* chain before have all returned; the traversals of the next chain's gaps are
\* started (the stores here hold no more gaps of a chain than buffer_unordered
\* has places), or, after the last chain, fill_gaps returns Ok.
FillGapsChain ==
    /\ sweep.pc = "filling"
    /\ \A j \in JobIds : jobs[j].pc \in {"idle", "done", "failed"}
    /\ IF sweep.emitted = <<>>
       THEN /\ sweep' = [sweep EXCEPT !.pc = "done"]
            /\ jobs' = jobs
       ELSE LET el == Head(sweep.emitted)
            IN  /\ sweep' = [sweep EXCEPT !.emitted = Tail(@)]
                /\ jobs' = [j \in JobIds |->
                         IF j <= Len(el.gaps)
                         THEN StartedJob(el.chain, gap_bounds(el.gaps[j]))
                         ELSE IdleJob]
    /\ UNCHANGED <<blocks, transactions, events, transfers, consumer, deriver, hist, scan,
                   call, balances, balancer>>

(***************************************************************************)
(* SpecFillGaps: fill_gaps is run, and run again, on a store that holds    *)
(* any set of the node's blocks, at most one per chain and height.         *)
(***************************************************************************)
InitFillGaps ==
    /\ hist = HistInit
    /\ \E S \in SUBSET AllHashes :
          /\ \A x, y \in S : (x[1] = y[1] /\ x[2] = y[2]) => x = y
          /\ blocks = {build_block(HeaderOf(x),
                                   CHOOSE p \in get_block_payload_batch(x[1],
                                                    {HeaderOf(x).payload_hash}) : TRUE) :
                          x \in S}
    /\ transactions = {}
    /\ events = {}
    /\ transfers = {}
    /\ jobs = [j \in JobIds |-> IdleJob]
    /\ sweep = [pc |-> "idle", runs |-> 0, emitted |-> <<>>]
    /\ consumer = [pc |-> "running", received |-> 0,
                   handlers |-> [k \in HandlerIds |-> IdleHandler]]
    /\ deriver = IdleDeriver
    /\ scan = IdleScan
    /\ call = NoCall
    /\ balances = {}
    /\ balancer = IdleBalancer

NextFillGaps ==
    \/ \E order \in IterationOrders(Chains) : FillGapsStart(order)
    \/ FillGapsChain
    \/ \E j \in JobIds : JobStep(j)

SpecFillGaps == InitFillGaps /\ [][NextFillGaps]_vars

\* The gaps find_gaps detects for a chain on a store.
DetectedGaps(bs, c) == {find_gaps(bs, c)[i] : i \in DOMAIN find_gaps(bs, c)}

process_header_goes_on(payloads) == "poll"
\* process_header after the answer to its payload request: the statement it
\* runs next, or the return of "Unable to retrieve payload".
process_header(payloads) == IF payloads = {} THEN "failed" ELSE "insert"

\* The node answers the payload request of handler k with zero payloads.
StreamNoPayload(k) ==
    /\ MayRun(k)
    /\ consumer.handlers[k].pc = "insert"
    /\ consumer' = [consumer EXCEPT !.handlers[k] =
            [IdleHandler EXCEPT !.pc = process_header({}),
                                !.header = consumer.handlers[k].header]]
    /\ UNCHANGED <<blocks, transactions, events, transfers, jobs, sweep, deriver, hist,
                   scan, call, balances, balancer>>

NextNoPayload ==
    \/ \E x \in StreamHashes : \E k \in HandlerIds : StreamReceive(k, x)
    \/ \E k \in HandlerIds : StreamStep(k)
    \/ \E k \in HandlerIds : StreamNoPayload(k)

SpecNoPayload == Init /\ [][NextNoPayload]_vars

\* C31: a handler leaves the wait for its payload in one of three ways: it
\* writes its block, it finds a conflicting block (and goes on to replace
\* it), or, when the node returned zero payloads, it returns the error with
\* the block, transaction and event tables unchanged.  A handler that has
\* returned never runs again (no retry): it keeps its state and writes nothing.
NoPayloadSkipsHeader ==
    [][\A k \in HandlerIds :
          LET h == consumer.handlers[k]
              g == consumer.handlers[k]'
          IN  /\ (h.pc = "insert" /\ g # h /\ blocks' = blocks) =>
                    \/ g.pc = "delete_events" /\ g.orphan # None
                    \/ /\ g.pc = "failed"
                       /\ g.written = {}
                       /\ g.header = h.header
                       /\ UNCHANGED <<blocks, transactions, events>>
              /\ h.pc = "failed" => g = h]_vars

\* C31's case: a handler has returned the error for a header without payload,
\* having written nothing, after another handler had written the block, the
\* transaction and the events of its header.
NoPayloadSkipsHeaderWitness ==
    \E k, o \in HandlerIds :
        /\ consumer.handlers[k].pc = "failed"
        /\ consumer.handlers[k].header # None
        /\ consumer.handlers[k].header.hash \notin Hashes(blocks)
        /\ consumer.handlers[o].pc = "done"
        /\ blocks # {} /\ transactions # {} /\ events # {}

(***************************************************************************)
(* SpecEvents: the events of a block are built and written, for a block    *)
(* with any number of transactions (up to MaxBlockTxs) whose results carry *)
(* event arrays of any length (up to EventsPerTx + 1).                     *)
(***************************************************************************)
\* The transactions in the block.
MaxBlockTxs == 2

\* The event arrays a tx-result may carry: events of two kinds, so that their
\* order shows.
EventArrays ==
    UNION {[1..n -> {[module |-> "coin", name |-> nm,
                      params |-> <<JsonString(<<"k", "0">>), JsonString(<<"k", "1">>),
                                   JsonNumber(<<"1">>)>>] : nm \in {"TRANSFER", "MINT"}}] :
              n \in 0..(EventsPerTx + 1)}

InitEvents ==
    /\ blocks = {make_block(0, 1)}
    /\ transactions = {}
    /\ events = {}
    /\ transfers = {}
    /\ jobs = [j \in JobIds |-> IdleJob]
    /\ sweep = [pc |-> "idle", runs |-> 0, emitted |-> <<>>]
    /\ consumer = [pc |-> "running", received |-> 0,
                   handlers |-> [k \in HandlerIds |-> IdleHandler]]
    /\ deriver = IdleDeriver
    /\ hist = HistInit
    /\ scan = IdleScan
    /\ \E n \in 1..MaxBlockTxs :
          \E arrays \in [{<<"rk", 0, 1, t>> : t \in 1..n} -> EventArrays] :
             call = [NoCall EXCEPT !.args =
                        <<{[TxResultIn(rk, <<0, 1, 0>>) EXCEPT !.events = arrays[rk]] :
                              rk \in DOMAIN arrays}>>]
    /\ balances = {}
    /\ balancer = IdleBalancer

\* process_headers: get_events_from_txs on the results of the page and
\* events.insert_batch.
InsertBlockEvents ==
    /\ call.fn = "none"
    /\ LET tx_results == call.args[1]
           signed_txs == {SignedTransaction(r.request_key) : r \in tx_results}
           evs        == get_events_from_txs(tx_results, signed_txs)
           res        == EventsInsertBatch(blocks, events, evs)
       IN  /\ events' = res.rows
           /\ call' = [call EXCEPT !.fn = "get_events_from_txs", !.result = res.err]
    /\ UNCHANGED <<blocks, transactions, transfers, jobs, sweep, consumer, deriver, hist,
                   scan, balances, balancer>>

NextEvents == InsertBlockEvents

SpecEvents == InitEvents /\ [][NextEvents]_vars

\* Every event of the results is persisted under the index it has in the event
\* array of its result.
IndexedByResult ==
    \A r \in call.args[1] :
        LET rows == {e \in events : e.request_key = r.request_key}
        IN  /\ Cardinality(rows) = Len(r.events)
            /\ \A i \in DOMAIN r.events :
                  \E e \in rows : /\ e.idx = i - 1
                                  /\ e.name = r.events[i].name
                                  /\ e.block = r.block_hash

\* C35 as claimed: once the events of a block are written, its events have
\* the idx values 0, 1, .. up to their number, each once, and every event has
\* the index it has in the event array of its tx-result, for a block with any
\* number of transactions.
EventIdxContiguousInBlock ==
    call.fn = "get_events_from_txs" =>
        /\ IndexedByResult
        /\ \A b \in blocks :
              LET rows == {e \in events : e.block = b.hash}
              IN  \A i \in 0..(Cardinality(rows) - 1) :
                      Cardinality({e \in rows : e.idx = i}) = 1

(***************************************************************************)
(* SpecInSync: backfill is run, and run again, on a network where any of   *)
(* the chains may have its genesis above height 0, from an empty store or  *)
(* from the store that is in sync with the cut: for every chain exactly    *)
(* the blocks from the chain's genesis to its head in the cut, with their  *)
(* transactions and events.                                                *)
(***************************************************************************)
\* The rows process_headers writes for the blocks of S: what the store holds
\* when the blocks of S have been indexed.
StoredPayloads(S, c) ==
    get_block_payload_batch(c, {HeaderOf(x).payload_hash : x \in {y \in S : y[1] = c}})

StoredTxResults(S, c) ==
    fetch_transactions_results(
        {s.hash : s \in get_signed_txs_from_payloads(StoredPayloads(S, c))}, c)

StoredBlocks(S) ==
    {build_block(HeaderOf(x),
                 CHOOSE p \in get_block_payload_batch(x[1], {HeaderOf(x).payload_hash}) : TRUE) :
        x \in S}

StoredTransactions(S) ==
    UNION {get_transactions_from_payload(get_signed_txs_from_payloads(StoredPayloads(S, c)),
                                         StoredTxResults(S, c), c) : c \in {x[1] : x \in S}}

StoredEvents(S) ==
    UNION {get_events_from_txs(StoredTxResults(S, c),
                               get_signed_txs_from_payloads(StoredPayloads(S, c))) :
              c \in {x[1] : x \in S}}

SyncedHashes == UNION {Ancestors(CutHash(c)) : c \in Chains}

SyncedBlocks == StoredBlocks(SyncedHashes)

SyncedTransactions == StoredTransactions(SyncedHashes)

SyncedEvents == StoredEvents(SyncedHashes)

InitInSync ==
    /\ \E late \in SUBSET Chains : \E synced \in BOOLEAN :
          hist = [HistInit EXCEPT !.late = late,
                                  !.phase = IF synced THEN "in_sync" ELSE "idle"]
    /\ blocks = IF hist.phase = "in_sync" THEN SyncedBlocks ELSE {}
    /\ transactions = IF hist.phase = "in_sync" THEN SyncedTransactions ELSE {}
    /\ events = IF hist.phase = "in_sync" THEN SyncedEvents ELSE {}
    /\ transfers = {}
    /\ jobs = [j \in JobIds |-> IdleJob]
    /\ sweep = [pc |-> "idle", runs |-> 0, emitted |-> <<>>]
    /\ consumer = [pc |-> "running", received |-> 0,
                   handlers |-> [k \in HandlerIds |-> IdleHandler]]
    /\ deriver = IdleDeriver
    /\ scan = IdleScan
    /\ call = NoCall
    /\ balances = {}
    /\ balancer = IdleBalancer

NextInSync ==
    \/ BackfillStart
    \/ \E j \in JobIds : JobStep(j)
    \/ BackfillEnd

\* The futures of a sweep are polled until each has returned, and backfill
\* returns when the last one has.
SpecInSync ==
    /\ InitInSync
    /\ [][NextInSync]_vars
    /\ \A j \in JobIds : WF_vars(JobStep(j))
    /\ WF_vars(BackfillEnd)

\* C38: the cut scheduler has a fixed point.  When the store holds, for every
\* chain, exactly the blocks from the chain's genesis to its head in the cut,
\* a backfill run inserts no row and deletes none, and every job the run emits
\* returns, the job below the lowest persisted block (emitted for a chain whose
\* genesis is above height 0) included, so that the run itself returns.
InSyncIsFixedPoint ==
    /\ [](hist.phase = "in_sync" =>
            /\ blocks = SyncedBlocks
            /\ transactions = SyncedTransactions
            /\ events = SyncedEvents)
    /\ [](hist.phase = "in_sync" =>
            \A j \in JobIds : jobs[j].pc \in {"idle", "fetch", "done"})
    /\ ((hist.phase = "in_sync" /\ sweep.pc = "running")
            ~> (sweep.pc = "done" /\ \A j \in JobIds : jobs[j].pc \in {"idle", "done"}))

\* A run on the store in sync has returned, and one of its jobs was the job
\* below the genesis of a chain whose genesis is above height 0.
InSyncIsFixedPointWitness ==
    /\ hist.phase = "in_sync"
    /\ sweep.pc = "done"
    /\ \E k \in DOMAIN sweep.emitted :
          /\ sweep.emitted[k].chain \in hist.late
          /\ sweep.emitted[k].bounds.lower = <<>>
          /\ sweep.emitted[k].bounds.upper =
                <<<<sweep.emitted[k].chain, GenesisAbove, 0>>>>
          /\ jobs[k].pc = "done"
          /\ jobs[k].chain = sweep.emitted[k].chain

(***************************************************************************)
(* SpecConcurrency: backfill on a cut of three chains, so that a sweep may *)
(* emit more jobs than buffer_unordered has places.  The store holds, per  *)
(* chain, nothing or the blocks from some height up to the head in the     *)
(* cut.  The calls of a job may fail.                                      *)
(***************************************************************************)
\* buffer_unordered(4): the jobs of a sweep polled at once.
BackfillConcurrency == 4

\* The chains of the cut.
WideChains == Chains \cup {Cardinality(Chains)}

WideChainOrder == SortDesc({<<c, c, 0>> : c \in WideChains})

\* One place per job a sweep can emit.
WideJobIds == 1..(2 * Cardinality(WideChains))

\* The jobs buffer_unordered has pulled from the stream of jobs and that have
\* not returned.
JobsInFlight ==
    {j \in DOMAIN jobs : jobs[j].pc \in {"fetch", "save_blocks", "insert_txs", "insert_events"}}

\* backfill: the cut is read and get_all_bounds lists the jobs; the stream of
\* their futures is lazy, no job has started yet.
BufferedStart ==
    /\ sweep.pc \in {"idle", "done"}
    /\ sweep.runs < MaxSweeps
    /\ LET emitted == Concat([i \in DOMAIN WideChainOrder |->
                                    get_all_bounds(blocks, WideChainOrder[i][1])])
       IN  sweep' = [pc |-> "running", runs |-> sweep.runs + 1, emitted |-> emitted]
    /\ jobs' = [j \in WideJobIds |-> IdleJob]
    /\ UNCHANGED <<blocks, transactions, events, transfers, consumer, deriver, hist, scan, call,
                   balances, balancer>>

\* The next job of the stream, if one is left.
NextEmitted ==
    {k \in DOMAIN sweep.emitted :
        /\ jobs[k].pc = "idle"
        /\ \A i \in 1..(k - 1) : jobs[i].pc # "idle"}

BufferedPull_unbounded(k) ==
    /\ sweep.pc = "running"
    /\ NoPanic
    /\ k \in NextEmitted
    /\ jobs' = [jobs EXCEPT ![k] = StartedJob(sweep.emitted[k].chain, sweep.emitted[k].bounds)]
    /\ UNCHANGED <<blocks, transactions, events, transfers, sweep, consumer, deriver, hist, scan,
                   call, balances, balancer>>

\* buffer_unordered: while fewer than its limit of futures are in progress, the
\* next future is taken from the stream and started.
BufferedPull(k) ==
    /\ sweep.pc = "running"
    /\ NoPanic
    /\ k \in NextEmitted
    /\ Cardinality(JobsInFlight) < BackfillConcurrency
    /\ jobs' = [jobs EXCEPT ![k] = StartedJob(sweep.emitted[k].chain, sweep.emitted[k].bounds)]
    /\ UNCHANGED <<blocks, transactions, events, transfers, sweep, consumer, deriver, hist, scan,
                   call, balances, balancer>>

\* The stream of jobs is exhausted and every job has returned: collect ends
\* and backfill returns.
BufferedEnd ==
    /\ sweep.pc = "running"
    /\ \A k \in DOMAIN jobs :
          IF k \in DOMAIN sweep.emitted THEN jobs[k].pc \in {"done", "failed"}
          ELSE jobs[k].pc = "idle"
    /\ sweep' = [sweep EXCEPT !.pc = "done"]
    /\ UNCHANGED <<blocks, transactions, events, transfers, jobs, consumer, deriver, hist, scan,
                   call, balances, balancer>>

\* The lowest persisted height of each chain, or None for a chain without blocks.
LowestHeights == [WideChains -> {None} \cup {[some |-> TRUE, value |-> h] : h \in 0..MaxHeight}]

InitConcurrency ==
    /\ hist = HistInit
    /\ \E low \in LowestHeights :
          /\ \A c \in WideChains : low[c] # None => low[c].value <= CutHeight(c)
          /\ LET S == {x \in WideChains \X (0..MaxHeight) \X {0} :
                          /\ low[x[1]] # None
                          /\ low[x[1]].value <= x[2]
                          /\ x[2] <= CutHeight(x[1])}
             IN  /\ blocks = StoredBlocks(S)
                 /\ transactions = StoredTransactions(S)
                 /\ events = StoredEvents(S)
    /\ transfers = {}
    /\ jobs = [j \in WideJobIds |-> IdleJob]
    /\ sweep = [pc |-> "idle", runs |-> 0, emitted |-> <<>>]
    /\ consumer = [pc |-> "running", received |-> 0,
                   handlers |-> [k \in HandlerIds |-> IdleHandler]]
    /\ deriver = IdleDeriver
    /\ scan = IdleScan
    /\ call = NoCall
    /\ balances = {}
    /\ balancer = IdleBalancer

NextConcurrency ==
    \/ BufferedStart
    \/ \E k \in WideJobIds : BufferedPull(k)
    \/ \E j \in WideJobIds : JobStep(j)
    \/ \E j \in WideJobIds : \E what \in FaultKinds : JobFault(j, what)
    \/ BufferedEnd

\* buffer_unordered takes the next job whenever a place is free and keeps
\* polling every job in progress.
SpecConcurrency ==
    /\ InitConcurrency
    /\ [][NextConcurrency]_vars
    /\ \A k \in WideJobIds : WF_vars(BufferedPull(k))
    /\ \A j \in WideJobIds : WF_vars(JobStep(j))
    /\ WF_vars(BufferedEnd)

\* At every moment of a sweep at most four jobs are in flight.
AtMostFourInFlight == Cardinality(JobsInFlight) <= BackfillConcurrency

\* C39 as claimed: the cut scheduler runs its jobs with bounded concurrency: at
\* every moment of a backfill sweep at most 4 traversal jobs are in flight,
\* and every job the sweep has emitted is eventually started.
BoundedConcurrency ==
    /\ []AtMostFourInFlight
    /\ \A k \in WideJobIds :
          (sweep.pc = "running" /\ k \in DOMAIN sweep.emitted) ~> (jobs[k].pc # "idle")

(***************************************************************************)
(* SpecTraverse: one caller runs index_chain twice in a row with the same  *)
(* bounds, then again with other bounds on the store left behind.          *)
(***************************************************************************)
HashesOf(c) == {x \in AllHashes : x[1] = c}

TraverseFirst(c, lower, upper) ==
    /\ hist.phase = "idle"
    /\ hist.pairs < MaxPairs
    /\ jobs' = [jobs EXCEPT ![1] = StartedJob(c, [lower |-> lower, upper |-> upper])]
    /\ hist' = [hist EXCEPT !.phase = "first", !.pairs = @ + 1,
                            !.start = [chain |-> c,
                                       bounds |-> [lower |-> lower, upper |-> upper]]]
    /\ UNCHANGED <<blocks, transactions, events, transfers, sweep, consumer, deriver, scan, call,
                   balances, balancer>>

TraverseSecond ==
    /\ hist.phase = "first"
    /\ jobs[1].pc = "done"
    /\ jobs' = [jobs EXCEPT ![1] = StartedJob(hist.start.chain, hist.start.bounds)]
    /\ hist' = [hist EXCEPT !.phase = "second",
                            !.snap = [blocks |-> blocks, transactions |-> transactions,
                                      events |-> events, transfers |-> transfers]]
    /\ UNCHANGED <<blocks, transactions, events, transfers, sweep, consumer, deriver, scan, call,
                   balances, balancer>>

\* The caller is done with the pair, or the process panicked and is started anew.
TraverseEnd ==
    /\ \/ hist.phase = "second" /\ jobs[1].pc = "done"
       \/ hist.phase \in {"first", "second"} /\ jobs[1].pc = "panicked"
    /\ jobs' = [jobs EXCEPT ![1] = IdleJob]
    /\ hist' = [hist EXCEPT !.phase = "idle", !.snap = NoSnap]
    /\ UNCHANGED <<blocks, transactions, events, transfers, sweep, consumer, deriver, scan, call,
                   balances, balancer>>

NextTraverse ==
    \/ \E c \in Chains : \E upper \in HashesOf(c) :
          \E lower \in {<<>>} \cup {<<x>> : x \in HashesOf(c)} :
             TraverseFirst(c, lower, <<upper>>)
    \/ TraverseSecond
    \/ TraverseEnd
    \/ JobStep(1)

SpecTraverse == Init /\ [][NextTraverse]_vars

(***************************************************************************)
(* SpecSharedPayload: one caller runs index_chain over canonical blocks,  *)
(* twice with the same bounds and again with other bounds, against a node  *)
(* on which headers of one page may carry the same payload hash.           *)
(***************************************************************************)
\* The headers of the page at hand carry the payload hashes share gives them,
\* two of them the same one.
NodeSharesPayloads(j, share) ==
    /\ NoPanic
    /\ jobs[j].pc = "save_blocks"
    /\ DOMAIN share = DOMAIN jobs[j].headers
    /\ \A i, k \in DOMAIN jobs[j].headers :
          i # k => jobs[j].headers[i].payload_hash # jobs[j].headers[k].payload_hash
    /\ \A i \in DOMAIN share :
          share[i] \in {jobs[j].headers[k].payload_hash : k \in DOMAIN jobs[j].headers}
    /\ \E i, k \in DOMAIN share : i # k /\ share[i] = share[k]
    /\ jobs' = [jobs EXCEPT ![j].headers =
                    [i \in DOMAIN share |-> [jobs[j].headers[i] EXCEPT
                                                !.payload_hash = share[i]]]]
    /\ UNCHANGED <<blocks, transactions, events, transfers, sweep, consumer, deriver, hist,
                   scan, call, balances, balancer>>

NextSharedPayload ==
    \/ \E c \in Chains : \E upper \in {x \in CanonicalHashes : x[1] = c} :
          \E lower \in {<<>>} \cup {<<x>> : x \in {y \in CanonicalHashes : y[1] = c}} :
             TraverseFirst(c, lower, <<upper>>)
    \/ TraverseSecond
    \/ TraverseEnd
    \/ \E share \in UNION {[1..n -> {<<"payload", x>> : x \in CanonicalHashes}] :
                              n \in 1..PageLimit} :
          NodeSharesPayloads(1, share)
    \/ JobStep(1)

SpecSharedPayload == Init /\ [][NextSharedPayload]_vars

\* C37 as claimed: when save_blocks has returned Ok for a page, a block row
\* with the hash of each header of the page is persisted, also when two
\* headers of the page carry the same payload hash.
SaveBlocksWritesEveryHeader ==
    \A j \in JobIds :
        (jobs[j].pc = "insert_txs" /\ "blocks" \in jobs[j].written) =>
            \A i \in DOMAIN jobs[j].headers : jobs[j].headers[i].hash \in Hashes(blocks)

(***************************************************************************)
(* SpecIndexChain: a call of index_chain runs to its return or to a panic;  *)
(* after a panic the process is started anew and index_chain is called on  *)
(* the store the dead process left.  The runtime keeps polling a job that  *)
(* can take a step.                                                        *)
(***************************************************************************)
ProcessRestart ==
    /\ hist.phase = "first"
    /\ jobs[1].pc = "panicked"
    /\ hist.crashes < MaxCrashes
    /\ jobs' = [jobs EXCEPT ![1] = IdleJob]
    /\ hist' = [hist EXCEPT !.phase = "idle", !.crashes = @ + 1]
    /\ UNCHANGED <<blocks, transactions, events, transfers, sweep, consumer, deriver, scan, call,
                   balances, balancer>>

NextIndexChain ==
    \/ \E c \in Chains : \E upper \in HashesOf(c) :
          \E lower \in {<<>>} \cup {<<x>> : x \in HashesOf(c)} :
             TraverseFirst(c, lower, <<upper>>)
    \/ JobStep(1)
    \/ ProcessRestart

SpecIndexChain == Init /\ [][NextIndexChain]_vars /\ WF_vars(JobStep(1))

\* The blocks the bounds of the running pair ask for.
Wanted ==
    (UNION {Ancestors(hist.start.bounds.upper[i]) : i \in DOMAIN hist.start.bounds.upper})
    \ (UNION {Ancestors(hist.start.bounds.lower[i]) : i \in DOMAIN hist.start.bounds.lower})

\* C4: a second run of index_chain with the same bounds inserts no row: all
\* through it no statement reports an inserted row, and the block, transaction
\* and event tables stay what they were when the first run returned.
IdempotentTraversal ==
    hist.phase = "second" =>
        /\ blocks = hist.snap.blocks
        /\ transactions = hist.snap.transactions
        /\ events = hist.snap.events
        /\ jobs[1].inserted = 0

\* The second run has returned after a first run that wrote blocks, transactions
\* and events.
IdempotentTraversalWitness ==
    /\ hist.phase = "second"
    /\ jobs[1].pc = "done"
    /\ hist.snap.blocks # {}
    /\ hist.snap.transactions # {}
    /\ hist.snap.events # {}

\* C5 as claimed: once index_chain has returned Ok, every block the bounds ask
\* for (upper and its ancestors that are not ancestors of lower) is persisted.
TraversalWritesEveryPage ==
    (hist.phase \in {"first", "second"} /\ jobs[1].pc = "done") =>
        Wanted \subseteq Hashes(blocks)

\* C6: index_chain terminates.  A turn of the loop that does not return moves
\* the upper bound to a strictly lower height; the loop returns only on an empty
\* item list or on an upper bound that did not move; and a running job ends.
UpperHeight(job) == job.bounds.upper[1][2]

TurnDescends ==
    (jobs[1].pc = "fetch" /\ jobs'[1].pc \notin {"fetch", "done", "idle"}) =>
        UpperHeight(jobs'[1]) < UpperHeight(jobs[1])

ReturnsOnlyConverged ==
    (jobs[1].pc = "fetch" /\ jobs'[1].pc = "done") =>
        LET items == get_block_headers_branches(jobs[1].chain, jobs[1].bounds)
        IN  items = <<>> \/ <<items[Len(items)].hash>> = jobs[1].bounds.upper

IndexChainTerminates ==
    /\ [][TurnDescends /\ ReturnsOnlyConverged]_vars
    /\ (jobs[1].pc = "fetch") ~> (jobs[1].pc \in {"done", "panicked"})

\* index_chain has returned after at least two turns that moved the upper bound.
IndexChainTerminatesWitness ==
    /\ hist.phase = "first"
    /\ jobs[1].pc = "done"
    /\ hist.start.bounds.upper[1][2] - UpperHeight(jobs[1]) >= 2
    /\ Cardinality(blocks) >= 3

\* C33: a traversal only adds rows.  No step of index_chain removes or changes
\* a block, transaction or event row that is in the store, and a block it
\* writes has a hash no persisted block has: the row of a header whose block
\* is already persisted stays as it is.
TraversalOnlyAdds ==
    [][/\ blocks \subseteq blocks'
       /\ transactions \subseteq transactions'
       /\ events \subseteq events'
       /\ \A b \in blocks' \ blocks : b.hash \notin Hashes(blocks)
       /\ \A t \in transactions' \ transactions :
             ~\E x \in transactions : TransactionKey(x) = TransactionKey(t)
       /\ \A e \in events' \ events : ~\E x \in events : EventKey(x) = EventKey(e)]_vars

\* C33's case: a traversal on a store left by an earlier one has written a
\* page of which one block was persisted before and another was not.
TraversalOnlyAddsWitness ==
    /\ hist.phase = "first"
    /\ hist.pairs = 2
    /\ jobs[1].pc = "insert_txs"
    /\ jobs[1].inserted > 0
    /\ jobs[1].inserted < Len(jobs[1].headers)

====
